---- MODULE Spec2Model ----
(***************************************************************************)
(* Point and Figure chart engine (PointAndFigureChart), its columns        *)
(* (PnFColumn / PnFBox) and the trend-line manager (PnFTrendLineManager /  *)
(* PnFTrendLine).                                                          *)
(*                                                                         *)
(* Prices and box sizes are integers that count sixteenths of a price      *)
(* unit.  Every quantity the code computes from such inputs (quotients     *)
(* rounded by floor/ceil, sums of box sizes, trend-line projections) is a  *)
(* dyadic rational that a double represents exactly, so the integer        *)
(* arithmetic below is the arithmetic of the code.                         *)
(*                                                                         *)
(* Column indices are the 0-based indices of the code; the column with     *)
(* index i is columns[i + 1].  A pointer into trendLines is the 1-based    *)
(* position of the line, 0 stands for nullptr.                             *)
(***************************************************************************)
EXTENDS Integers, Sequences, FiniteSets, TLC

VARIABLES
    columns,            \* PointAndFigureChart::columns
    constructionType,   \* PointAndFigureChart::constructionType
    boxSizeType,        \* PointAndFigureChart::boxSizeType
    boxSize,            \* PointAndFigureChart::boxSize
    reversalCount,      \* PointAndFigureChart::reversalCount
    lastProcessedTime,  \* PointAndFigureChart::lastProcessedTime
    trendLines,         \* PnFTrendLineManager::trendLines
    activeTrendLine,    \* PnFTrendLineManager::activeTrendLine
    managerBoxSize,     \* PnFTrendLineManager::boxSize
    column,             \* a PnFColumn used on its own (PnFColumnTest)
    trendline,          \* a PnFTrendLine used on its own (PnFTrendLineTest)
    lastCall            \* the last call made and what it returned

vars == <<columns, constructionType, boxSizeType, boxSize, reversalCount,
          lastProcessedTime, trendLines, activeTrendLine, managerBoxSize,
          column, trendline, lastCall>>

chartVars == <<columns, constructionType, boxSizeType, boxSize, reversalCount,
               lastProcessedTime, trendLines, activeTrendLine, managerBoxSize>>

-----------------------------------------------------------------------------
(* Bounds of the model.                                                    *)

MaxPrice == 4           \* observations of the chart range over 0 .. MaxPrice
MaxColumns == 5         \* no observation is fed that would form a longer chart
MaxReversal == 3        \* reversal counts 1 .. MaxReversal
MaxBoxPrice == 2        \* prices handed to AddBox on a lone column
MaxBoxColumns == 2      \* columns of the chart that stands next to it
MaxLineColumn == 4      \* column indices used with a lone trend line
MaxLinePrice == 4       \* prices used with a lone trend line
MaxClearPrice == 3      \* observations of a chart that is also cleared
MaxClearColumns == 3    \* and the longest such chart
MaxTouch == 2           \* touches of a line that outlives Clear() or is tested alone
MaxQueryPrice == 2      \* prices of the chart that is asked for its columns
MaxQueryColumns == 2    \* and the longest such chart
MaxMonthPrice == 2      \* prices of the chart whose observations are dated
MaxMonthColumns == 3    \* and the longest such chart
MaxBarPrice == 3        \* prices of the chart whose observations are recorded
MaxBarColumns == 4      \* and the longest such chart
MaxSearchPrice == 2     \* prices of the columns searched for significant lows and highs
MaxSearchColumns == 5   \* and the most columns searched
MaxTierFill == 3        \* boxes between an observation and the last column, tier charts
MaxTierColumns == 3     \* and the longest such chart
MaxLifeColumns == 4     \* the longest chart that is cleared and refilled

Prices == 0 .. MaxPrice
BoxSizes == {1, 2}
ReversalCounts == 1 .. MaxReversal

(* Time is the calendar month of a time_point: year * 12 + tm_mon.  Epoch  *)
(* is the value of a default-constructed time_point.                       *)
Epoch == -1
ClockTimes == {24289, 24290}    \* what system_clock::now() may return
DataTimes == {24290}            \* timestamps of the observations

-----------------------------------------------------------------------------
(* PnFBox and PnFColumn.                                                   *)

PnFBox(price, boxType, marker) ==
    [price |-> price, boxType |-> boxType, marker |-> marker]

PnFColumn(columnType) == [columnType |-> columnType, boxes |-> <<>>]

HasBox(col, price) ==
    \E i \in 1 .. Len(col.boxes) : col.boxes[i].price = price

\* AddBox without the HasBox test.
AddBoxUnchecked(col, price, boxType, marker) ==
    [col EXCEPT !.boxes = Append(@, PnFBox(price, boxType, marker))]

\* The column AddBox leaves behind (both overloads; marker "" is the first).
AddBox(col, price, boxType, marker) ==
    IF HasBox(col, price)
    THEN col
    ELSE [col EXCEPT !.boxes = Append(@, PnFBox(price, boxType, marker))]

\* The value AddBox returns.
AddBoxResult(col, price) == ~HasBox(col, price)

GetBoxCount(col) == Len(col.boxes)

BoxPrices(col) == {col.boxes[i].price : i \in 1 .. Len(col.boxes)}

SetMax(S) == CHOOSE x \in S : \A y \in S : y <= x
SetMin(S) == CHOOSE x \in S : \A y \in S : x <= y

GetHighestPrice(col) ==
    IF Len(col.boxes) = 0 THEN 0 ELSE SetMax(BoxPrices(col))

GetLowestPrice(col) ==
    IF Len(col.boxes) = 0 THEN 0 ELSE SetMin(BoxPrices(col))

ColumnClear(col) == [col EXCEPT !.boxes = <<>>]

-----------------------------------------------------------------------------
(* Box sizing.                                                             *)

\* floor(a / b) and ceil(a / b) for b # 0
Floor(a, b) == IF b > 0 THEN a \div b ELSE (-a) \div (-b)
Ceil(a, b) == -Floor(-a, b)

\* A tier table whose thresholds belong to the tier below them.
DefaultBoxSizeInclusive(price) ==
    IF price <= 4 THEN 1
    ELSE IF price <= 16 THEN 2
    ELSE IF price <= 80 THEN 4
    ELSE IF price <= 320 THEN 8
    ELSE IF price <= 1600 THEN 16
    ELSE IF price <= 3200 THEN 32
    ELSE IF price <= 8000 THEN 64
    ELSE IF price <= 16000 THEN 80
    ELSE IF price <= 400000 THEN 800
    ELSE 8000

\* DEFAULT mode: the tier of a price (thresholds and sizes in sixteenths).
DefaultBoxSize(price) ==
    IF price < 4 THEN 1
    ELSE IF price < 16 THEN 2
    ELSE IF price < 80 THEN 4
    ELSE IF price < 320 THEN 8
    ELSE IF price < 1600 THEN 16
    ELSE IF price < 3200 THEN 32
    ELSE IF price < 8000 THEN 64
    ELSE IF price < 16000 THEN 80
    ELSE IF price < 400000 THEN 800
    ELSE 8000

\* The value CalculateBoxSize returns for a chart whose fields are bst, bs.
\* PERCENTAGE is price * boxSize / 100 with boxSize a plain number of
\* percent; the quotient is exact when 100 divides price * bs.
CalculateBoxSize(price, bst, bs) ==
    CASE bst = "FIXED" -> bs
      [] bst = "PERCENTAGE" -> (price * bs) \div 100
      [] bst = "POINTS" -> bs
      [] OTHER -> DefaultBoxSize(price)

\* The boxSize field after CalculateBoxSize(price): DEFAULT mode stores the
\* tier it returns, the other modes leave the field alone.
StoredBoxSize(price, bst, bs) ==
    IF bst \in {"FIXED", "PERCENTAGE", "POINTS"} THEN bs ELSE DefaultBoxSize(price)

\* RoundToBoxSize that takes the floor, and one that takes the ceiling,
\* whatever roundUp says.
RoundToBoxSizeFloor(price, roundUp, bst, bs) ==
    LET size == CalculateBoxSize(price, bst, bs)
    IN Floor(price, size) * size

RoundToBoxSizeCeil(price, roundUp, bst, bs) ==
    LET size == CalculateBoxSize(price, bst, bs)
    IN Ceil(price, size) * size

RoundToBoxSize(price, roundUp, bst, bs) ==
    LET size == CalculateBoxSize(price, bst, bs)
    IN IF roundUp THEN Ceil(price, size) * size ELSE Floor(price, size) * size

-----------------------------------------------------------------------------
(* Month markers.                                                          *)

GetMonthMarker(month) ==
    IF month >= 1 /\ month <= 12
    THEN <<"1", "2", "3", "4", "5", "6", "7", "8", "9", "A", "B", "C">>[month]
    ELSE ""

tm_year(t) == t \div 12
tm_mon(t) == t % 12

HasMonthChanged(currentTime, last) ==
    IF last = Epoch THEN TRUE
    ELSE tm_year(currentTime) # tm_year(last) \/ tm_mon(currentTime) # tm_mon(last)

\* "" when the month has not changed
GetMonthMarkerForCurrentData(dataTime, last) ==
    IF HasMonthChanged(dataTime, last) THEN GetMonthMarker(tm_mon(dataTime) + 1) ELSE ""

-----------------------------------------------------------------------------
(* PnFTrendLine.                                                           *)

PnFTrendLine(trendLineType, startColumnIndex, startPrice, size) ==
    [trendLineType |-> trendLineType,
     startColumn |-> startColumnIndex,
     startPrice |-> startPrice,
     boxSize |-> size,
     isActive |-> TRUE,
     wasTouched |-> FALSE,
     touchCount |-> 0]

\* CalculatePriceAtColumn that adds the column difference for both types.
CalculatePriceAtColumnRising(line, columnIndex) ==
    IF columnIndex < line.startColumn THEN 0
    ELSE line.startPrice + (columnIndex - line.startColumn) * line.boxSize

CalculatePriceAtColumn(line, columnIndex) ==
    IF columnIndex < line.startColumn THEN 0
    ELSE LET columnDifference == columnIndex - line.startColumn
         IN IF line.trendLineType = "BULLISH_SUPPORT"
            THEN line.startPrice + columnDifference * line.boxSize
            ELSE line.startPrice - columnDifference * line.boxSize

GetPriceAtColumn(line, columnIndex) == CalculatePriceAtColumn(line, columnIndex)

IsBroken(line, columnIndex, price) ==
    IF ~line.isActive \/ columnIndex <= line.startColumn THEN FALSE
    ELSE LET trendLinePrice == CalculatePriceAtColumn(line, columnIndex)
         IN IF line.trendLineType = "BULLISH_SUPPORT"
            THEN price < trendLinePrice - line.boxSize
            ELSE price > trendLinePrice + line.boxSize

Abs(x) == IF x < 0 THEN -x ELSE x

\* GetValue's test with a whole box in place of half a box.
TouchesWithinBox(line, price, trendlinePrice) ==
    Abs(price - trendlinePrice) < line.boxSize

\* GetValue's test |price - trendlinePrice| < boxSize * 0.5
Touches(line, price, trendlinePrice) ==
    2 * Abs(price - trendlinePrice) < line.boxSize

\* The line TestTrendLine leaves behind.
TestTrendLine(line, columnIndex, price) ==
    IF ~line.isActive \/ columnIndex <= line.startColumn THEN line
    ELSE IF Touches(line, price, CalculatePriceAtColumn(line, columnIndex))
         THEN [line EXCEPT !.wasTouched = TRUE, !.touchCount = @ + 1]
         ELSE line

\* The value TestTrendLine returns.
TestTrendLineResult(line, columnIndex, price) ==
    /\ line.isActive
    /\ columnIndex > line.startColumn
    /\ Touches(line, price, CalculatePriceAtColumn(line, columnIndex))

\* SetActive that leaves the flag alone.
SetActiveIgnored(line, active) == line

SetActive(line, active) == [line EXCEPT !.isActive = active]

-----------------------------------------------------------------------------
(* PnFTrendLineManager.  cols is the chart's column vector.                *)

ColumnAt(cols, i) == cols[i + 1]

Min(a, b) == IF a < b THEN a ELSE b

\* IsSignificantLow that looks back over every earlier column.
IsSignificantLowOfAll(cols, columnIndex) ==
    LET col == ColumnAt(cols, columnIndex)
        currentLow == GetLowestPrice(col)
    IN IF col.columnType # "COLUMN_O" THEN FALSE
       ELSE IF columnIndex < 1 THEN FALSE
       ELSE IF ColumnAt(cols, columnIndex - 1).columnType # "COLUMN_X" THEN FALSE
       ELSE IF currentLow >= GetHighestPrice(ColumnAt(cols, columnIndex - 1)) THEN FALSE
       ELSE \A i \in 1 .. columnIndex :
                ~(GetLowestPrice(ColumnAt(cols, columnIndex - i)) < currentLow)

IsSignificantLow(cols, columnIndex) ==
    LET col == ColumnAt(cols, columnIndex)
        currentLow == GetLowestPrice(col)
        lookback == Min(3, columnIndex)
    IN IF col.columnType # "COLUMN_O" THEN FALSE
       ELSE IF columnIndex < 1 THEN FALSE
       ELSE IF ColumnAt(cols, columnIndex - 1).columnType # "COLUMN_X" THEN FALSE
       ELSE IF currentLow >= GetHighestPrice(ColumnAt(cols, columnIndex - 1)) THEN FALSE
       ELSE \A i \in 1 .. lookback :
                columnIndex - i >= 0 =>
                    ~(GetLowestPrice(ColumnAt(cols, columnIndex - i)) < currentLow)

IsSignificantHigh(cols, columnIndex) ==
    LET col == ColumnAt(cols, columnIndex)
        currentHigh == GetHighestPrice(col)
        lookback == Min(3, columnIndex)
    IN IF col.columnType # "COLUMN_X" THEN FALSE
       ELSE IF columnIndex < 1 THEN FALSE
       ELSE IF ColumnAt(cols, columnIndex - 1).columnType # "COLUMN_O" THEN FALSE
       ELSE IF currentHigh <= GetLowestPrice(ColumnAt(cols, columnIndex - 1)) THEN FALSE
       ELSE \A i \in 1 .. lookback :
                columnIndex - i >= 0 =>
                    ~(GetHighestPrice(ColumnAt(cols, columnIndex - i)) > currentHigh)

RECURSIVE FindSignificantLow(_, _)
FindSignificantLow(cols, fromColumn) ==
    IF fromColumn < 0 THEN -1
    ELSE IF IsSignificantLow(cols, fromColumn) THEN fromColumn
    ELSE FindSignificantLow(cols, fromColumn - 1)

RECURSIVE FindSignificantHigh(_, _)
FindSignificantHigh(cols, fromColumn) ==
    IF fromColumn < 0 THEN -1
    ELSE IF IsSignificantHigh(cols, fromColumn) THEN fromColumn
    ELSE FindSignificantHigh(cols, fromColumn - 1)

\* The manager's state: its lines and the pointer to the current one.
Manager(lines, active) == [trendLines |-> lines, activeTrendLine |-> active]

\* push_back of a new line, which becomes the current one
PushLine(m, line) ==
    Manager(Append(m.trendLines, line), Len(m.trendLines) + 1)

\* A break that also drops the history of the manager.
\* SetActive(false) that also resets the manager's pointer to the line.
DeactivateCurrentResetting(m) ==
    Manager([m.trendLines EXCEPT ![m.activeTrendLine] = SetActive(@, FALSE)], 0)

DeactivateCurrentErasing(m) == Manager(<<>>, 0)

DeactivateCurrent(m) ==
    Manager([m.trendLines EXCEPT ![m.activeTrendLine] = SetActive(@, FALSE)],
            m.activeTrendLine)

CheckTrendLineBreak(m, cols, columnIndex) ==
    IF m.activeTrendLine = 0 \/ ~m.trendLines[m.activeTrendLine].isActive THEN m
    ELSE IF columnIndex < 0 \/ columnIndex >= Len(cols) THEN m
    ELSE LET line == m.trendLines[m.activeTrendLine]
             currentColumn == ColumnAt(cols, columnIndex)
             price == IF line.trendLineType = "BULLISH_SUPPORT"
                      THEN GetLowestPrice(currentColumn)
                      ELSE GetHighestPrice(currentColumn)
         IN IF IsBroken(line, columnIndex, price)
            THEN DeactivateCurrent(m)
            ELSE Manager([m.trendLines EXCEPT ![m.activeTrendLine] =
                              TestTrendLine(@, columnIndex, price)],
                         m.activeTrendLine)

\* A support line anchored at the highest price of the significant low.
NewSupportLineAtHigh(m, cols, columnIndex, size) ==
    LET lowColumnIndex == FindSignificantLow(cols, columnIndex - 1)
    IN IF lowColumnIndex >= 0
       THEN PushLine(m, PnFTrendLine("BULLISH_SUPPORT", lowColumnIndex,
                        GetHighestPrice(ColumnAt(cols, lowColumnIndex)), size))
       ELSE m

\* The Down-to-Up half of ProcessNewColumn: a support line from the most
\* recent significant low, when there is one.
NewSupportLine(m, cols, columnIndex, size) ==
    LET lowColumnIndex == FindSignificantLow(cols, columnIndex - 1)
    IN IF lowColumnIndex >= 0
       THEN PushLine(m, PnFTrendLine("BULLISH_SUPPORT", lowColumnIndex,
                        GetLowestPrice(ColumnAt(cols, lowColumnIndex)), size))
       ELSE m

NewResistanceLine(m, cols, columnIndex, size) ==
    LET highColumnIndex == FindSignificantHigh(cols, columnIndex - 1)
    IN IF highColumnIndex >= 0
       THEN PushLine(m, PnFTrendLine("BEARISH_RESISTANCE", highColumnIndex,
                        GetHighestPrice(ColumnAt(cols, highColumnIndex)), size))
       ELSE m

ProcessNewColumn(m, cols, columnIndex, size) ==
    IF columnIndex < 1 \/ columnIndex >= Len(cols) THEN m
    ELSE LET currentColumn == ColumnAt(cols, columnIndex)
             prevColumn == ColumnAt(cols, columnIndex - 1)
             hasLine == m.activeTrendLine # 0
             line == m.trendLines[m.activeTrendLine]
         IN IF currentColumn.columnType = "COLUMN_X" /\ prevColumn.columnType = "COLUMN_O"
            THEN IF hasLine /\ line.trendLineType = "BEARISH_RESISTANCE"
                 THEN IF IsBroken(line, columnIndex, GetHighestPrice(currentColumn))
                      THEN NewSupportLine(DeactivateCurrent(m), cols, columnIndex, size)
                      ELSE m
                 ELSE IF ~hasLine
                      THEN NewSupportLine(m, cols, columnIndex, size)
                      ELSE m
            ELSE IF currentColumn.columnType = "COLUMN_O" /\ prevColumn.columnType = "COLUMN_X"
            THEN IF hasLine /\ line.trendLineType = "BULLISH_SUPPORT"
                 THEN IF IsBroken(line, columnIndex, GetLowestPrice(currentColumn))
                      THEN NewResistanceLine(DeactivateCurrent(m), cols, columnIndex, size)
                      ELSE m
                 ELSE IF ~hasLine
                      THEN NewResistanceLine(m, cols, columnIndex, size)
                      ELSE m
            ELSE m

UpdateTrendLines(m, cols, newColumnIndex, size) ==
    ProcessNewColumn(CheckTrendLineBreak(m, cols, newColumnIndex),
                     cols, newColumnIndex, size)

ManagerClear(m) == Manager(<<>>, 0)

GetActiveTrendLine(m) == m.activeTrendLine

\* HasBullishBias that does not ask whether the line is active.
HasBullishBiasOfAnyLine(m) ==
    /\ m.activeTrendLine # 0
    /\ m.trendLines[m.activeTrendLine].trendLineType = "BULLISH_SUPPORT"

HasBullishBias(m) ==
    /\ m.activeTrendLine # 0
    /\ m.trendLines[m.activeTrendLine].isActive
    /\ m.trendLines[m.activeTrendLine].trendLineType = "BULLISH_SUPPORT"

HasBearishBias(m) ==
    /\ m.activeTrendLine # 0
    /\ m.trendLines[m.activeTrendLine].isActive
    /\ m.trendLines[m.activeTrendLine].trendLineType = "BEARISH_RESISTANCE"

IsAboveBullishSupport(m, columnIndex, price) ==
    IF m.activeTrendLine = 0 \/ ~m.trendLines[m.activeTrendLine].isActive THEN FALSE
    ELSE IF m.trendLines[m.activeTrendLine].trendLineType # "BULLISH_SUPPORT" THEN FALSE
    ELSE price > GetPriceAtColumn(m.trendLines[m.activeTrendLine], columnIndex)

IsBelowBearishResistance(m, columnIndex, price) ==
    IF m.activeTrendLine = 0 \/ ~m.trendLines[m.activeTrendLine].isActive THEN FALSE
    ELSE IF m.trendLines[m.activeTrendLine].trendLineType # "BEARISH_RESISTANCE" THEN FALSE
    ELSE price < GetPriceAtColumn(m.trendLines[m.activeTrendLine], columnIndex)

-----------------------------------------------------------------------------
(* PointAndFigureChart: reversal test and the fill loops.                  *)

GetLastColumn(cols) == cols[Len(cols)]

\* An Up column that no price reverses.
UpColumnNeverReverses(price, highestPrice, reversal, size) == FALSE

\* The threshold test of IsReversal taken one box early.
UpColumnReversesEarly(price, highestPrice, reversal, size) ==
    price <= highestPrice - (reversal - 1) * size

\* price <= reversalLevel for an Up column
UpColumnReverses(price, highestPrice, reversal, size) ==
    price <= highestPrice - reversal * size

\* price >= reversalLevel for a Down column
DownColumnReverses(price, lowestPrice, reversal, size) ==
    price >= lowestPrice + reversal * size

\* IsReversal: its result and the value newBoxType holds afterwards (the
\* reference parameter keeps the caller's value when nothing reverses).
IsReversal(price, currentColumn, newBoxType, bst, bs, reversal) ==
    IF GetBoxCount(currentColumn) = 0
    THEN [result |-> FALSE, newBoxType |-> newBoxType]
    ELSE LET size == CalculateBoxSize(price, bst, bs)
             highestPrice == GetHighestPrice(currentColumn)
             lowestPrice == GetLowestPrice(currentColumn)
             columnType == currentColumn.columnType
         IN IF columnType = "COLUMN_X"
            THEN IF UpColumnReverses(price, highestPrice, reversal, size)
                 THEN [result |-> TRUE, newBoxType |-> "O"]
                 ELSE [result |-> FALSE, newBoxType |-> newBoxType]
            ELSE IF columnType = "COLUMN_O"
            THEN IF DownColumnReverses(price, lowestPrice, reversal, size)
                 THEN [result |-> TRUE, newBoxType |-> "X"]
                 ELSE [result |-> FALSE, newBoxType |-> newBoxType]
            ELSE IF columnType = "COLUMN_MIXED" /\ reversal = 1
            THEN IF price > highestPrice + size
                 THEN [result |-> TRUE, newBoxType |-> "X"]
                 ELSE IF price < lowestPrice - size
                 THEN [result |-> TRUE, newBoxType |-> "O"]
                 ELSE [result |-> FALSE, newBoxType |-> newBoxType]
            ELSE [result |-> FALSE, newBoxType |-> newBoxType]

\* FillUp that hands the marker to every box.
RECURSIVE FillUpAllMarked(_, _, _, _, _, _)
FillUpAllMarked(col, currentPrice, limit, step, marker, mixed) ==
    IF ~(currentPrice <= limit) THEN col
    ELSE LET boxType == IF mixed
                        THEN (IF currentPrice > GetLowestPrice(col) THEN "X" ELSE "O")
                        ELSE "X"
         IN FillUpAllMarked(AddBox(col, currentPrice, boxType, marker),
                            currentPrice + step, limit, step, marker, mixed)

\* FillUp that stops behind a box that carries a marker.
RECURSIVE FillUpToMarker(_, _, _, _, _, _)
FillUpToMarker(col, currentPrice, limit, step, marker, mixed) ==
    IF ~(currentPrice <= limit) THEN col
    ELSE LET boxType == IF mixed
                        THEN (IF currentPrice > GetLowestPrice(col) THEN "X" ELSE "O")
                        ELSE "X"
         IN IF marker # ""
            THEN AddBox(col, currentPrice, boxType, marker)
            ELSE FillUpToMarker(AddBox(col, currentPrice, boxType, marker),
                                currentPrice + step, limit, step, "", mixed)

\* The loops "while (currentPrice <= limit) { AddBox; currentPrice += step }".
\* marker is the month marker still to be applied ("" when there is none or
\* it has been applied); mixed says that the box type is chosen the way the
\* closing-price continuation of a Mixed column chooses it.  step > 0.
RECURSIVE FillUp(_, _, _, _, _, _)
FillUp(col, currentPrice, limit, step, marker, mixed) ==
    IF ~(currentPrice <= limit) THEN col
    ELSE LET boxType == IF mixed
                        THEN (IF currentPrice > GetLowestPrice(col) THEN "X" ELSE "O")
                        ELSE "X"
         IN FillUp(AddBox(col, currentPrice, boxType, marker),
                   currentPrice + step, limit, step, "", mixed)

RECURSIVE FillDown(_, _, _, _, _, _)
FillDown(col, currentPrice, limit, step, marker, mixed) ==
    IF ~(currentPrice >= limit) THEN col
    ELSE LET boxType == IF mixed
                        THEN (IF currentPrice < GetHighestPrice(col) THEN "O" ELSE "X")
                        ELSE "O"
         IN FillDown(AddBox(col, currentPrice, boxType, marker),
                     currentPrice - step, limit, step, "", mixed)

\* The type of the column when a reversal count of 1 does not override it.
NewColumnTypeNatural(reversalBoxType, reversal) ==
    IF reversalBoxType = "X" THEN "COLUMN_X" ELSE "COLUMN_O"

\* NewColumnType with the two directions exchanged.
NewColumnTypeSwapped(reversalBoxType, reversal) ==
    IF reversal = 1 THEN "COLUMN_MIXED"
    ELSE IF reversalBoxType = "X" THEN "COLUMN_O" ELSE "COLUMN_X"

\* The type of the column a reversal creates.
NewColumnType(reversalBoxType, reversal) ==
    IF reversal = 1 THEN "COLUMN_MIXED"
    ELSE IF reversalBoxType = "X" THEN "COLUMN_X" ELSE "COLUMN_O"

\* ReversalColumn that starts to fill at the last column's far end.
ReversalColumnFromExtreme(lastColumn, reversalBoxType, reversalPrice, size, marker, bst, bs, reversal) ==
    LET newColumn == PnFColumn(NewColumnType(reversalBoxType, reversal))
    IN IF reversalBoxType = "X"
       THEN FillUp(newColumn, GetLowestPrice(lastColumn),
                   RoundToBoxSize(reversalPrice, TRUE, bst, bs), size, marker, FALSE)
       ELSE FillDown(newColumn, GetHighestPrice(lastColumn),
                     RoundToBoxSize(reversalPrice, FALSE, bst, bs), size, marker, FALSE)

\* The column a reversal creates: its type, filled from one box beyond the
\* last column's far end to the rounded reversal price.
ReversalColumn(lastColumn, reversalBoxType, reversalPrice, size, marker, bst, bs, reversal) ==
    LET newColumn == PnFColumn(NewColumnType(reversalBoxType, reversal))
    IN IF reversalBoxType = "X"
       THEN FillUp(newColumn, GetLowestPrice(lastColumn) + size,
                   RoundToBoxSize(reversalPrice, TRUE, bst, bs), size, marker, FALSE)
       ELSE FillDown(newColumn, GetHighestPrice(lastColumn) - size,
                     RoundToBoxSize(reversalPrice, FALSE, bst, bs), size, marker, FALSE)

\* The first column of a chart.
FirstColumn(price, marker, bst, bs) ==
    AddBox(PnFColumn("COLUMN_X"), RoundToBoxSize(price, FALSE, bst, bs), "X", marker)

\* Continuation of the last column in closing-price construction.
ClosingContinuation(lastColumn, close, size, marker, bst, bs) ==
    LET columnType == lastColumn.columnType
    IN IF columnType \in {"COLUMN_X", "COLUMN_MIXED"} /\ close > GetHighestPrice(lastColumn)
       THEN FillUp(lastColumn, GetHighestPrice(lastColumn) + size,
                   RoundToBoxSize(close, TRUE, bst, bs), size, marker,
                   columnType = "COLUMN_MIXED")
       ELSE IF columnType \in {"COLUMN_O", "COLUMN_MIXED"} /\ close < GetLowestPrice(lastColumn)
       THEN FillDown(lastColumn, GetLowestPrice(lastColumn) - size,
                     RoundToBoxSize(close, FALSE, bst, bs), size, marker,
                     columnType = "COLUMN_MIXED")
       ELSE lastColumn

\* Continuation of the last column in high/low construction.
HighLowContinuation(lastColumn, high, low, size, marker, bst, bs) ==
    LET columnType == lastColumn.columnType
    IN IF columnType = "COLUMN_X" /\ high > GetHighestPrice(lastColumn)
       THEN FillUp(lastColumn, GetHighestPrice(lastColumn) + size,
                   RoundToBoxSize(high, TRUE, bst, bs), size, marker, FALSE)
       ELSE IF columnType = "COLUMN_O" /\ low < GetLowestPrice(lastColumn)
       THEN FillDown(lastColumn, GetLowestPrice(lastColumn) - size,
                     RoundToBoxSize(low, FALSE, bst, bs), size, marker, FALSE)
       ELSE lastColumn

\* The price of the last CalculateBoxSize call of ProcessHighLowData, which
\* is the one whose tier DEFAULT mode leaves in boxSize.
HighLowLastSizedPrice(cols, high, low, reversed, reversalPrice) ==
    IF Len(cols) = 0 THEN high
    ELSE IF reversed THEN reversalPrice
    ELSE LET lastColumn == GetLastColumn(cols)
         IN IF lastColumn.columnType = "COLUMN_X" /\ high > GetHighestPrice(lastColumn)
            THEN high
            ELSE IF lastColumn.columnType = "COLUMN_O" /\ low < GetLowestPrice(lastColumn)
            THEN low
            ELSE IF GetBoxCount(lastColumn) = 0 THEN high ELSE low

-----------------------------------------------------------------------------
(* PointAndFigureChart: the operations.  trendLineManager is created by    *)
(* the constructor and never reset, so the "manager is null" returns of    *)
(* the Process functions are not taken and AddData returns true.           *)

\* push_back that inserts the column at the front of the vector.
PushColumnFront(cols, newColumn) == <<newColumn>> \o cols

\* columns.push_back(std::move(newColumn))
PushColumnTwice(cols, newColumn) == Append(Append(cols, newColumn), newColumn)

PushColumn(cols, newColumn) == Append(cols, newColumn)

\* What lastCall records: the operation, the arguments of a call on a lone
\* column or trend line (<<>> for a call on the chart) and the value returned
\* (TRUE for a void operation).
Call(op, args, ret) == [op |-> op, args |-> args, ret |-> ret]

ProcessClosingPriceData(close, time) ==
    LET marker == GetMonthMarkerForCurrentData(time, lastProcessedTime)
        size == CalculateBoxSize(close, boxSizeType, boxSize)
        m == Manager(trendLines, activeTrendLine)
    IN /\ IF Len(columns) = 0
          THEN /\ columns' = PushColumn(columns, FirstColumn(close, marker, boxSizeType, boxSize))
               /\ UNCHANGED <<trendLines, activeTrendLine>>
          ELSE LET lastColumn == GetLastColumn(columns)
                   rev == IsReversal(close, lastColumn, "unset",
                                     boxSizeType, boxSize, reversalCount)
               IN IF rev.result
                  THEN LET newColumns ==
                               PushColumn(columns,
                                          ReversalColumn(lastColumn, rev.newBoxType, close,
                                                         size, marker, boxSizeType, boxSize,
                                                         reversalCount))
                           m2 == UpdateTrendLines(m, newColumns, Len(newColumns) - 1,
                                                  managerBoxSize)
                       IN /\ columns' = newColumns
                          /\ trendLines' = m2.trendLines
                          /\ activeTrendLine' = m2.activeTrendLine
                  ELSE /\ columns' = [columns EXCEPT ![Len(columns)] =
                                          ClosingContinuation(lastColumn, close, size, marker,
                                                              boxSizeType, boxSize)]
                       /\ UNCHANGED <<trendLines, activeTrendLine>>
       /\ boxSize' = StoredBoxSize(close, boxSizeType, boxSize)
       /\ lastProcessedTime' = time
       /\ lastCall' = Call("AddData", <<>>, TRUE)
       /\ UNCHANGED <<constructionType, boxSizeType, reversalCount, managerBoxSize,
                      column, trendline>>

ProcessHighLowData(high, low, time) ==
    LET marker == GetMonthMarkerForCurrentData(time, lastProcessedTime)
        size == CalculateBoxSize(high, boxSizeType, boxSize)
        m == Manager(trendLines, activeTrendLine)
        lastColumn == GetLastColumn(columns)
        revHigh == IsReversal(high, lastColumn, "unset",
                              boxSizeType, boxSize, reversalCount)
        revLow == IsReversal(low, lastColumn, revHigh.newBoxType,
                             boxSizeType, boxSize, reversalCount)
        reversed == Len(columns) > 0 /\ (revHigh.result \/ revLow.result)
        reversalPrice == IF revHigh.result THEN high ELSE low
    IN /\ IF Len(columns) = 0
          THEN /\ columns' = PushColumn(columns, FirstColumn(high, marker, boxSizeType, boxSize))
               /\ UNCHANGED <<trendLines, activeTrendLine>>
          ELSE IF reversed
          THEN LET newColumns ==
                       PushColumn(columns,
                                  ReversalColumn(lastColumn, revLow.newBoxType, reversalPrice,
                                                 size, marker, boxSizeType, boxSize,
                                                 reversalCount))
                   m2 == UpdateTrendLines(m, newColumns, Len(newColumns) - 1,
                                          managerBoxSize)
               IN /\ columns' = newColumns
                  /\ trendLines' = m2.trendLines
                  /\ activeTrendLine' = m2.activeTrendLine
          ELSE /\ columns' = [columns EXCEPT ![Len(columns)] =
                                  HighLowContinuation(lastColumn, high, low, size, marker,
                                                      boxSizeType, boxSize)]
               /\ UNCHANGED <<trendLines, activeTrendLine>>
       /\ boxSize' = StoredBoxSize(HighLowLastSizedPrice(columns, high, low, reversed,
                                                         reversalPrice),
                                   boxSizeType, boxSize)
       /\ lastProcessedTime' = time
       /\ lastCall' = Call("AddData", <<>>, TRUE)
       /\ UNCHANGED <<constructionType, boxSizeType, reversalCount, managerBoxSize,
                      column, trendline>>

\* AddData(high, low, close, time)
AddData(high, low, close, time) ==
    IF constructionType = "HIGH_LOW"
    THEN ProcessHighLowData(high, low, time)
    ELSE ProcessClosingPriceData(close, time)

\* AddData(price, time)
AddDataPrice(price, time) == AddData(price, price, price, time)

\* Clear() of the chart; now is what system_clock::now() returns.
Clear(now) ==
    /\ columns' = <<>>
    /\ lastProcessedTime' = now
    /\ lastCall' = Call("Clear", <<>>, TRUE)
    /\ UNCHANGED <<constructionType, boxSizeType, boxSize, reversalCount,
                   trendLines, activeTrendLine, managerBoxSize, column, trendline>>

GetColumnCount == Len(columns)

-----------------------------------------------------------------------------
(* GetAllPrices.                                                           *)

\* the prices of all boxes, column after column, in the order of the boxes
RECURSIVE BoxPriceList(_)
BoxPriceList(cols) ==
    IF Len(cols) = 0 THEN <<>>
    ELSE BoxPriceList(SubSeq(cols, 1, Len(cols) - 1))
         \o [j \in 1 .. Len(cols[Len(cols)].boxes) |-> cols[Len(cols)].boxes[j].price]

\* fabs(existing - price) < eps for some existing, eps = 0.00001: a price
\* of the model is a number of sixteenths, so the test is |d| / 16 < 1 / 100000
Found(allPrices, price) ==
    \E i \in 1 .. Len(allPrices) : Abs(allPrices[i] - price) * 100000 < 16

\* the loop that appends every price that is not yet in allPrices
RECURSIVE CollectPrices(_, _)
CollectPrices(allPrices, list) ==
    IF Len(list) = 0 THEN allPrices
    ELSE CollectPrices(IF Found(allPrices, list[1])
                       THEN allPrices
                       ELSE Append(allPrices, list[1]),
                       Tail(list))

\* std::ranges::sort(allPrices, std::greater<>())
RECURSIVE SortDescending(_)
SortDescending(list) ==
    IF Len(list) = 0 THEN <<>>
    ELSE LET i == CHOOSE k \in 1 .. Len(list) :
                      \A l \in 1 .. Len(list) : list[l] <= list[k]
         IN <<list[i]>> \o SortDescending(SubSeq(list, 1, i - 1)
                                          \o SubSeq(list, i + 1, Len(list)))

\* GetAllPrices that appends every price, found or not.
GetAllPricesRepeated(cols) == SortDescending(BoxPriceList(cols))

GetAllPrices(cols) == SortDescending(CollectPrices(<<>>, BoxPriceList(cols)))

-----------------------------------------------------------------------------
(* Spec: a chart of any construction type, box size and reversal count,    *)
(* fed prices and bars through AddData.                                    *)

NoColumn == PnFColumn("COLUMN_X")
NoLine == PnFTrendLine("BULLISH_SUPPORT", 0, 0, 1)

\* PointAndFigureChart(constructionType, boxSizeType, boxSize, reversalCount)
\* at time now.
Construct(ct, bst, bs, reversal, now) ==
    /\ columns = <<>>
    /\ constructionType = ct
    /\ boxSizeType = bst
    /\ boxSize = bs
    /\ reversalCount = reversal
    /\ lastProcessedTime = now
    /\ trendLines = <<>>
    /\ activeTrendLine = 0
    /\ managerBoxSize = bs

Init ==
    /\ \E ct \in {"CLOSING_PRICE", "HIGH_LOW"}, bs \in BoxSizes,
          reversal \in ReversalCounts, now \in ClockTimes :
            Construct(ct, "FIXED", bs, reversal, now)
    /\ column = NoColumn
    /\ trendline = NoLine
    /\ lastCall = Call("new", <<>>, TRUE)

\* A bar of price data: low <= close <= high.
BarsOf(P) == {b \in [high : P, low : P, close : P] :
                 b.low <= b.close /\ b.close <= b.high}

\* AddData(price, time) that leaves the chart with at most maxColumns columns.
AddPriceFrom(P, maxColumns) ==
    \E price \in P, time \in DataTimes :
        /\ AddDataPrice(price, time)
        /\ Len(columns') <= maxColumns

\* AddData(high, low, close, time)
AddBarFrom(P, maxColumns) ==
    \E bar \in BarsOf(P), time \in DataTimes :
        /\ AddData(bar.high, bar.low, bar.close, time)
        /\ Len(columns') <= maxColumns

AddPrice == AddPriceFrom(Prices, MaxColumns)

AddBar == AddBarFrom(Prices, MaxColumns)

Next == AddPrice \/ AddBar

Spec == Init /\ [][Next]_vars

-----------------------------------------------------------------------------
(* SpecClear: the chart of Spec with Clear(), over a smaller range of      *)
(* prices.  A line that outlives Clear() can be touched again and again,   *)
(* so the observations stop at MaxTouch touches.                           *)

ClearPrices == 0 .. MaxClearPrice

TouchesBounded(lines) == \A i \in 1 .. Len(lines) : lines[i].touchCount <= MaxTouch

ClearAddPrice == AddPriceFrom(ClearPrices, MaxClearColumns) /\ TouchesBounded(trendLines')

ClearAddBar == AddBarFrom(ClearPrices, MaxClearColumns) /\ TouchesBounded(trendLines')

ClearChart == \E now \in ClockTimes : Clear(now)

NextClear == ClearAddPrice \/ ClearAddBar \/ ClearChart

SpecClear == Init /\ [][NextClear]_vars

-----------------------------------------------------------------------------
(* SpecColumn: a column of its own, filled through AddBox, and a small     *)
(* closing-price chart fed through AddData.  The two objects share         *)
(* nothing, so a run works on one of them: the column is filled while the  *)
(* chart is empty and the chart is fed while the column is empty.          *)

BoxPriceSet == 0 .. MaxBoxPrice
ColumnTypes == {"COLUMN_X", "COLUMN_O", "COLUMN_MIXED"}

InitColumn ==
    /\ \E reversal \in {1, 2}, now \in ClockTimes :
            Construct("CLOSING_PRICE", "FIXED", 1, reversal, now)
    /\ \E columnType \in ColumnTypes : column = PnFColumn(columnType)
    /\ trendline = NoLine
    /\ lastCall = Call("new", <<>>, TRUE)

\* column.AddBox(price, boxType) and column.AddBox(price, boxType, marker)
ColumnAddBox(price, boxType, marker) ==
    /\ column' = AddBox(column, price, boxType, marker)
    /\ lastCall' = Call("AddBox", <<>>, AddBoxResult(column, price))
    /\ UNCHANGED <<chartVars, trendline>>

ColumnAdd ==
    /\ Len(columns) = 0
    /\ \E price \in BoxPriceSet, boxType \in {"X", "O"} : ColumnAddBox(price, boxType, "")

ColumnAddMarked ==
    /\ Len(columns) = 0
    /\ \E price \in BoxPriceSet, boxType \in {"X", "O"} : ColumnAddBox(price, boxType, "A")

ColumnChartAdd ==
    /\ GetBoxCount(column) = 0
    /\ AddPriceFrom(BoxPriceSet, MaxBoxColumns)

NextColumn == ColumnAdd \/ ColumnAddMarked \/ ColumnChartAdd

SpecColumn == InitColumn /\ [][NextColumn]_vars

-----------------------------------------------------------------------------
(* SpecLine: a trend line of its own (PnFTrendLineTest).                   *)

LineColumns == 0 .. MaxLineColumn
LinePrices == 0 .. MaxLinePrice

InitLine ==
    /\ Construct("CLOSING_PRICE", "FIXED", 1, 3, 24290)
    /\ column = NoColumn
    /\ \E type \in {"BULLISH_SUPPORT", "BEARISH_RESISTANCE"},
          startColumn \in LineColumns, startPrice \in LinePrices, size \in BoxSizes :
            trendline = PnFTrendLine(type, startColumn, startPrice, size)
    /\ lastCall = Call("new", <<>>, TRUE)

LineGetPrice ==
    \E columnIndex \in LineColumns :
        /\ lastCall' = Call("GetPriceAtColumn", <<columnIndex>>,
                            GetPriceAtColumn(trendline, columnIndex))
        /\ UNCHANGED <<chartVars, column, trendline>>

LineIsBroken ==
    \E columnIndex \in LineColumns, price \in LinePrices :
        /\ lastCall' = Call("IsBroken", <<columnIndex, price>>,
                            IsBroken(trendline, columnIndex, price))
        /\ UNCHANGED <<chartVars, column, trendline>>

LineTest ==
    \E columnIndex \in LineColumns, price \in LinePrices :
        /\ trendline' = TestTrendLine(trendline, columnIndex, price)
        /\ trendline'.touchCount <= MaxTouch
        /\ lastCall' = Call("TestTrendLine", <<columnIndex, price>>,
                            TestTrendLineResult(trendline, columnIndex, price))
        /\ UNCHANGED <<chartVars, column>>

LineSetActive ==
    \E active \in BOOLEAN :
        /\ trendline' = SetActive(trendline, active)
        /\ lastCall' = Call("SetActive", <<active>>, TRUE)
        /\ UNCHANGED <<chartVars, column>>

NextLine == LineGetPrice \/ LineIsBroken \/ LineTest \/ LineSetActive

SpecLine == InitLine /\ [][NextLine]_vars

-----------------------------------------------------------------------------
(* Properties.                                                             *)


\* C1: with reversalCount >= 2 the column types alternate strictly, starting
\* with Up, and no column is Mixed.
C1_TypesAlternate ==
    reversalCount >= 2 =>
        /\ Len(columns) >= 1 => columns[1].columnType = "COLUMN_X"
        /\ \A i \in 2 .. Len(columns) : columns[i].columnType # columns[i - 1].columnType
        /\ \A i \in 1 .. Len(columns) : columns[i].columnType # "COLUMN_MIXED"

\* C1 witness: a high/low chart with reversalCount >= 2 that has reversed
\* three times.
C1_Witness ==
    /\ reversalCount >= 2
    /\ constructionType = "HIGH_LOW"
    /\ Len(columns) >= 4

\* The types a reversal may give the new column.
ReversedType(oldType) ==
    IF reversalCount = 1 THEN "COLUMN_MIXED"
    ELSE IF oldType = "COLUMN_X" THEN "COLUMN_O" ELSE "COLUMN_X"

\* A step of closing-price construction with price close appends a column.
AppendsColumn == Len(columns') = Len(columns) + 1

\* C3: in closing-price construction an observation p appends a column to a
\* chart whose last column is Up with highest price H exactly when
\* p <= H - R*B, and to one whose last column is Down with lowest price L
\* exactly when p >= L + R*B; the new column is Down (Up), Mixed when R = 1;
\* a price inside the threshold leaves the number of columns alone.
C3_ReversalThreshold ==
    [][\A close \in Prices, time \in DataTimes :
          (/\ constructionType = "CLOSING_PRICE"
           /\ Len(columns) > 0
           /\ ProcessClosingPriceData(close, time))
          => LET last == columns[Len(columns)]
                 H == GetHighestPrice(last)
                 L == GetLowestPrice(last)
                 crosses == IF last.columnType = "COLUMN_X"
                            THEN close <= H - reversalCount * boxSize
                            ELSE close >= L + reversalCount * boxSize
             IN last.columnType \in {"COLUMN_X", "COLUMN_O"} =>
                    IF crosses
                    THEN /\ AppendsColumn
                         /\ columns'[Len(columns')].columnType = ReversedType(last.columnType)
                    ELSE Len(columns') = Len(columns)]_vars

\* C3 witness: a closing-price chart on which a Down column has been
\* reversed by an Up column.
C3_Witness ==
    /\ constructionType = "CLOSING_PRICE"
    /\ reversalCount = 3
    /\ Len(columns) >= 3
    /\ columns[2].columnType = "COLUMN_O"
    /\ columns[3].columnType = "COLUMN_X"

\* The multiples of the box size next to a price p >= 0: the greatest one
\* that is at most p and the least one that is at least p.
LevelBelow(p, B) == B * SetMax({k \in 0 .. p : k * B <= p})
LevelAbove(p, B) == B * SetMin({k \in 0 .. p : k * B >= p})

\* C2: no column holds two boxes at one price.  AddBox at a price the column
\* holds returns false and leaves the column as it was; the lone column and
\* every column of the chart have pairwise distinct box prices.
DistinctPrices(col) ==
    \A i, j \in 1 .. Len(col.boxes) :
        i # j => col.boxes[i].price # col.boxes[j].price

C2_NoDuplicateBox ==
    /\ [](/\ DistinctPrices(column)
          /\ \A i \in 1 .. Len(columns) : DistinctPrices(columns[i]))
    /\ [][\A price \in BoxPriceSet, boxType \in {"X", "O"}, marker \in {"", "A"} :
             (ColumnAddBox(price, boxType, marker) /\ HasBox(column, price))
             => (lastCall'.ret = FALSE /\ column' = column)]_vars

\* C2 witness: AddBox has just been refused on a column of one box.
C2_Witness ==
    /\ lastCall.op = "AddBox"
    /\ lastCall.ret = FALSE
    /\ GetBoxCount(column) = 1

\* C4: the first observation of an empty chart makes one Up column of one
\* box at floor(p/B)*B, p the close (closing-price construction) or the high
\* (high/low construction), and AddData returns true.
C4_FirstObservation ==
    [][\A bar \in BarsOf(Prices), time \in DataTimes :
          (Len(columns) = 0 /\ AddData(bar.high, bar.low, bar.close, time))
          => LET p == IF constructionType = "HIGH_LOW" THEN bar.high ELSE bar.close
             IN /\ Len(columns') = 1
                /\ columns'[1].columnType = "COLUMN_X"
                /\ Len(columns'[1].boxes) = 1
                /\ columns'[1].boxes[1].price = LevelBelow(p, boxSize)
                /\ lastCall'.ret = TRUE]_vars

\* C4 witness: a high/low chart with box size 2 after AddData, holding the
\* one box of a first observation that is no multiple of the box size.
C4_Witness ==
    /\ lastCall.op = "AddData"
    /\ constructionType = "HIGH_LOW"
    /\ boxSize = 2
    /\ Len(columns) = 1
    /\ Len(columns[1].boxes) = 1
    /\ columns[1].boxes[1].price = 2

\* new is old with boxes added at exactly the prices of levels.
ExtendedBy(old, new, levels) ==
    /\ new.columnType = old.columnType
    /\ Len(new.boxes) = Len(old.boxes) + Cardinality(levels)
    /\ SubSeq(new.boxes, 1, Len(old.boxes)) = old.boxes
    /\ {new.boxes[i].price : i \in Len(old.boxes) + 1 .. Len(new.boxes)} = levels

\* H+B, H+2B, ... up to top, and L-B, L-2B, ... down to bottom
LevelsUp(H, top, B) == {H + k * B : k \in 1 .. MaxPrice + B} \cap (H + 1 .. top)
LevelsDown(L, bottom, B) == {L - k * B : k \in 1 .. MaxPrice + B} \cap (bottom .. L - 1)

\* C5: in closing-price construction a price p that does not reach the
\* reversal threshold of an Up last column with highest price H leaves the
\* number of columns and the earlier columns alone; p > H adds exactly the
\* levels H+B .. ceil(p/B)*B to the last column and H - R*B < p <= H adds
\* nothing.  The mirror holds for a Down last column.
C5_Continuation ==
    [][\A close \in Prices, time \in DataTimes :
          (/\ constructionType = "CLOSING_PRICE"
           /\ Len(columns) > 0
           /\ ProcessClosingPriceData(close, time))
          => LET n == Len(columns)
                 last == columns[n]
                 H == GetHighestPrice(last)
                 L == GetLowestPrice(last)
                 kept == /\ Len(columns') = n
                         /\ \A i \in 1 .. n - 1 : columns'[i] = columns[i]
             IN /\ (last.columnType = "COLUMN_X" /\ close > H - reversalCount * boxSize)
                   => /\ kept
                      /\ ExtendedBy(last, columns'[n],
                                    IF close > H
                                    THEN LevelsUp(H, LevelAbove(close, boxSize), boxSize)
                                    ELSE {})
                /\ (last.columnType = "COLUMN_O" /\ close < L + reversalCount * boxSize)
                   => /\ kept
                      /\ ExtendedBy(last, columns'[n],
                                    IF close < L
                                    THEN LevelsDown(L, LevelBelow(close, boxSize), boxSize)
                                    ELSE {})]_vars

\* C5 witness: a closing-price chart with box size 2 whose only column has
\* grown to three boxes.
C5_Witness ==
    /\ constructionType = "CLOSING_PRICE"
    /\ boxSize = 2
    /\ Len(columns) = 1
    /\ GetBoxCount(columns[1]) = 3

\* C6: in closing-price construction the column a reversal out of an Up
\* column with highest price H creates holds, in this order, the levels
\* H-B, H-2B, ..., floor(p/B)*B, at least reversalCount of them; out of a
\* Down column with lowest price L it holds L+B, L+2B, ..., ceil(p/B)*B.
C6_ReversalFill ==
    [][\A close \in Prices, time \in DataTimes :
          (/\ constructionType = "CLOSING_PRICE"
           /\ Len(columns) > 0
           /\ ProcessClosingPriceData(close, time)
           /\ AppendsColumn)
          => LET last == columns[Len(columns)]
                 H == GetHighestPrice(last)
                 L == GetLowestPrice(last)
                 new == columns'[Len(columns')].boxes
             IN /\ Len(new) >= reversalCount
                /\ last.columnType = "COLUMN_X"
                   => /\ \A i \in 1 .. Len(new) : new[i].price = H - i * boxSize
                      /\ new[Len(new)].price = LevelBelow(close, boxSize)
                /\ last.columnType = "COLUMN_O"
                   => /\ \A i \in 1 .. Len(new) : new[i].price = L + i * boxSize
                      /\ new[Len(new)].price = LevelAbove(close, boxSize)]_vars

\* C6 witness: a closing-price chart with box size 2 and reversal count 1
\* whose third column was filled upwards by a reversal.
C6_Witness ==
    /\ constructionType = "CLOSING_PRICE"
    /\ boxSize = 2
    /\ Len(columns) >= 3
    /\ columns[2].columnType # "COLUMN_X"
    /\ GetBoxCount(columns[3]) >= 2
    /\ columns[3].boxes[1].price < columns[3].boxes[2].price

\* C7: an AddData call leaves the number of columns alone or raises it by
\* exactly one; a step that lowers it is a Clear().
C7_ColumnCountGrows ==
    [][/\ lastCall'.op = "AddData"
          => (Len(columns') = Len(columns) \/ Len(columns') = Len(columns) + 1)
       /\ Len(columns') < Len(columns) => lastCall'.op = "Clear"]_vars

\* C7 witness: a chart that had grown far enough to own a trend line was
\* cleared, and AddData has since given it its second column.
C7_Witness ==
    /\ lastCall.op = "AddData"
    /\ Len(columns) = 2
    /\ Len(trendLines) > 0

\* C8: at most one trend line of the manager is active.
C8_OneActiveLine ==
    Cardinality({i \in 1 .. Len(trendLines) : trendLines[i].isActive}) <= 1

\* C8 witness: a line has been broken and the chart has reversed since.
C8_Witness ==
    /\ Len(trendLines) >= 1
    /\ ~trendLines[1].isActive
    /\ Len(columns) > trendLines[1].startColumn + 3

\* C9: at column col0 + k, k >= 0, a Bullish-Support line anchored at
\* (col0, price0) is at price0 + k*B and a Bearish-Resistance line at
\* price0 - k*B.
C9_Projection ==
    (lastCall.op = "GetPriceAtColumn" /\ lastCall.args[1] >= trendline.startColumn)
    => LET k == lastCall.args[1] - trendline.startColumn
       IN lastCall.ret = IF trendline.trendLineType = "BULLISH_SUPPORT"
                         THEN trendline.startPrice + k * trendline.boxSize
                         ELSE trendline.startPrice - k * trendline.boxSize

\* C9 witness: a Bearish-Resistance line of box size 2 queried three columns
\* after its anchor.
C9_Witness ==
    /\ lastCall.op = "GetPriceAtColumn"
    /\ trendline.trendLineType = "BEARISH_RESISTANCE"
    /\ trendline.boxSize = 2
    /\ lastCall.args[1] = trendline.startColumn + 3

NoLineActive(lines) == \A i \in 1 .. Len(lines) : ~lines[i].isActive

\* The line the manager points at is active, of this type and anchored here.
ActiveLineIs(type, startColumn, startPrice) ==
    /\ activeTrendLine' # 0
    /\ trendLines'[activeTrendLine'].isActive
    /\ trendLines'[activeTrendLine'].trendLineType = type
    /\ trendLines'[activeTrendLine'].startColumn = startColumn
    /\ trendLines'[activeTrendLine'].startPrice = startPrice

\* C10: when AddData forms an Up column at index n after a Down column while
\* no line is active, and some column at an index <= n-1 is a significant
\* low, then an active Bullish-Support line anchored at the greatest such
\* index and at that column's lowest price exists when AddData returns; the
\* mirror holds for a Down column after an Up column.
C10_LineCreatedWhenNoneActive ==
    [][(lastCall'.op = "AddData" /\ AppendsColumn /\ Len(columns) >= 1
        /\ NoLineActive(trendLines))
       => LET n == Len(columns)
              new == columns'[n + 1]
              prev == columns'[n]
              lows == {i \in 0 .. n - 1 : IsSignificantLow(columns', i)}
              highs == {i \in 0 .. n - 1 : IsSignificantHigh(columns', i)}
          IN /\ (new.columnType = "COLUMN_X" /\ prev.columnType = "COLUMN_O" /\ lows # {})
                => ActiveLineIs("BULLISH_SUPPORT", SetMax(lows),
                                GetLowestPrice(ColumnAt(columns', SetMax(lows))))
             /\ (new.columnType = "COLUMN_O" /\ prev.columnType = "COLUMN_X" /\ highs # {})
                => ActiveLineIs("BEARISH_RESISTANCE", SetMax(highs),
                                GetHighestPrice(ColumnAt(columns', SetMax(highs))))]_vars

\* The case of C10 in which no line was ever created.
C10_FirstLineCreated ==
    [][(lastCall'.op = "AddData" /\ AppendsColumn /\ Len(columns) >= 1
        /\ trendLines = <<>>)
       => LET n == Len(columns)
              new == columns'[n + 1]
              prev == columns'[n]
              lows == {i \in 0 .. n - 1 : IsSignificantLow(columns', i)}
              highs == {i \in 0 .. n - 1 : IsSignificantHigh(columns', i)}
          IN /\ (new.columnType = "COLUMN_X" /\ prev.columnType = "COLUMN_O" /\ lows # {})
                => ActiveLineIs("BULLISH_SUPPORT", SetMax(lows),
                                GetLowestPrice(ColumnAt(columns', SetMax(lows))))
             /\ (new.columnType = "COLUMN_O" /\ prev.columnType = "COLUMN_X" /\ highs # {})
                => ActiveLineIs("BEARISH_RESISTANCE", SetMax(highs),
                                GetHighestPrice(ColumnAt(columns', SetMax(highs))))]_vars

\* The current line of the manager is active and of this type.
CurrentLineIs(type) ==
    /\ activeTrendLine # 0
    /\ trendLines[activeTrendLine].isActive
    /\ trendLines[activeTrendLine].trendLineType = type

\* C11: break and replace.  When AddData forms an Up column at index n whose
\* highest price is more than one box above the projection of the active
\* Bearish-Resistance line at n, that line is inactive when AddData returns
\* and, if some column at an index <= n-1 is a significant low, an active
\* Bullish-Support line anchored at the greatest such index is the current
\* line; the mirror holds for a Bullish-Support line and a Down column.
C11_BreakAndReplace ==
    [][(lastCall'.op = "AddData" /\ AppendsColumn /\ activeTrendLine # 0)
       => LET n == Len(columns)
              new == columns'[n + 1]
              line == trendLines[activeTrendLine]
              projection == GetPriceAtColumn(line, n)
              lows == {i \in 0 .. n - 1 : IsSignificantLow(columns', i)}
              highs == {i \in 0 .. n - 1 : IsSignificantHigh(columns', i)}
          IN /\ (/\ CurrentLineIs("BEARISH_RESISTANCE")
                 /\ new.columnType = "COLUMN_X"
                 /\ GetHighestPrice(new) > projection + line.boxSize)
                => /\ ~trendLines'[activeTrendLine].isActive
                   /\ lows # {} =>
                          ActiveLineIs("BULLISH_SUPPORT", SetMax(lows),
                                       GetLowestPrice(ColumnAt(columns', SetMax(lows))))
             /\ (/\ CurrentLineIs("BULLISH_SUPPORT")
                 /\ new.columnType = "COLUMN_O"
                 /\ GetLowestPrice(new) < projection - line.boxSize)
                => /\ ~trendLines'[activeTrendLine].isActive
                   /\ highs # {} =>
                          ActiveLineIs("BEARISH_RESISTANCE", SetMax(highs),
                                       GetHighestPrice(ColumnAt(columns', SetMax(highs))))]_vars

\* The half of C11 that deactivates the broken line.
C11_BrokenLineDeactivated ==
    [][(lastCall'.op = "AddData" /\ AppendsColumn /\ activeTrendLine # 0)
       => LET n == Len(columns)
              new == columns'[n + 1]
              line == trendLines[activeTrendLine]
              projection == GetPriceAtColumn(line, n)
          IN /\ (/\ CurrentLineIs("BEARISH_RESISTANCE")
                 /\ new.columnType = "COLUMN_X"
                 /\ GetHighestPrice(new) > projection + line.boxSize)
                => ~trendLines'[activeTrendLine].isActive
             /\ (/\ CurrentLineIs("BULLISH_SUPPORT")
                 /\ new.columnType = "COLUMN_O"
                 /\ GetLowestPrice(new) < projection - line.boxSize)
                => ~trendLines'[activeTrendLine].isActive]_vars

-----------------------------------------------------------------------------
(* SpecBreak: the chart of Spec, and the trend line of SpecLine tested     *)
(* through TestTrendLine.  A run works on one of the two objects: the line *)
(* is tested while the chart is empty and the chart is fed while the line  *)
(* is the untouched NoLine.                                                *)

InitBreak == Init \/ InitLine

BreakAddPrice == trendline = NoLine /\ AddPrice

BreakAddBar == trendline = NoLine /\ AddBar

BreakLineTest == Len(columns) = 0 /\ LineTest

BreakLineSetActive == Len(columns) = 0 /\ LineSetActive

NextBreak == BreakAddPrice \/ BreakAddBar \/ BreakLineTest \/ BreakLineSetActive

SpecBreak == InitBreak /\ [][NextBreak]_vars

\* after is before with one more touch recorded
TouchRecorded(before, after) ==
    after = [before EXCEPT !.wasTouched = TRUE, !.touchCount = @ + 1]

\* C12: the break/touch test.  On every column c that AddData forms while a
\* line is active, a Bullish-Support line becomes inactive exactly when the
\* column's lowest price < projection(c) - boxSize; when it does not, one
\* touch is recorded exactly when |lowest - projection(c)| < boxSize / 2 and
\* touchCount and wasTouched are left alone otherwise (Bearish-Resistance:
\* highest price > projection(c) + boxSize).  TestTrendLine returns true
\* exactly when it records a touch, and returns false and changes nothing
\* for an inactive line or a column index <= the start column.
C12_BreakTouch ==
    [][/\ (/\ lastCall'.op = "AddData"
           /\ AppendsColumn
           /\ activeTrendLine # 0
           /\ trendLines[activeTrendLine].isActive)
          => LET c == Len(columns)
                 new == columns'[c + 1]
                 before == trendLines[activeTrendLine]
                 after == trendLines'[activeTrendLine]
                 bullish == before.trendLineType = "BULLISH_SUPPORT"
                 projection == GetPriceAtColumn(before, c)
                 extreme == IF bullish THEN GetLowestPrice(new) ELSE GetHighestPrice(new)
                 broken == IF bullish
                           THEN extreme < projection - before.boxSize
                           ELSE extreme > projection + before.boxSize
                 near == 2 * extreme - 2 * projection < before.boxSize
                         /\ 2 * projection - 2 * extreme < before.boxSize
             IN /\ ~after.isActive <=> broken
                /\ ~broken => IF near THEN TouchRecorded(before, after)
                                      ELSE after = before
       /\ lastCall'.op = "TestTrendLine"
          => LET c == lastCall'.args[1]
                 price == lastCall'.args[2]
                 projection == GetPriceAtColumn(trendline, c)
                 near == 2 * price - 2 * projection < trendline.boxSize
                         /\ 2 * projection - 2 * price < trendline.boxSize
             IN /\ lastCall'.ret <=> TouchRecorded(trendline, trendline')
                /\ ~lastCall'.ret => trendline' = trendline
                /\ (~trendline.isActive \/ c <= trendline.startColumn) => ~lastCall'.ret
                /\ (trendline.isActive /\ c > trendline.startColumn)
                   => (lastCall'.ret <=> near)]_vars

\* C12 witness: the active line of a chart has been touched by a column
\* formed after it.
C12_Witness ==
    /\ lastCall.op = "AddData"
    /\ activeTrendLine # 0
    /\ trendLines[activeTrendLine].isActive
    /\ trendLines[activeTrendLine].touchCount >= 1

\* C13: a trend line that has become inactive is never active again, its
\* touchCount, wasTouched, type and start point never change in a later
\* AddData call, and AddData removes no line from the history.
C13_InactiveLinesFrozen ==
    [][lastCall'.op = "AddData"
       => /\ Len(trendLines') >= Len(trendLines)
          /\ \A i \in 1 .. Len(trendLines) :
                /\ trendLines'[i].trendLineType = trendLines[i].trendLineType
                /\ trendLines'[i].startColumn = trendLines[i].startColumn
                /\ trendLines'[i].startPrice = trendLines[i].startPrice
                /\ ~trendLines[i].isActive => trendLines'[i] = trendLines[i]]_vars

\* C13 witness: a closing-price chart whose Bullish-Support line, anchored
\* at column 1, was broken by the Down column at index 3 (any price that
\* reverses column 2 is more than a box below the line there), and AddData
\* has formed the column at index 4 since.
C13_Witness ==
    /\ lastCall.op = "AddData"
    /\ constructionType = "CLOSING_PRICE"
    /\ Len(columns) = 5
    /\ Len(trendLines) = 1
    /\ ~trendLines[1].isActive
    /\ trendLines[1].trendLineType = "BULLISH_SUPPORT"
    /\ trendLines[1].startColumn = 1
    /\ GetHighestPrice(columns[3]) - reversalCount * boxSize
           < GetPriceAtColumn(trendLines[1], 3) - trendLines[1].boxSize

\* start.price + k * boxSize (Bullish-Support) or - k * boxSize
\* (Bearish-Resistance) at column start.column + k
Projection(line, c) ==
    IF line.trendLineType = "BULLISH_SUPPORT"
    THEN line.startPrice + (c - line.startColumn) * line.boxSize
    ELSE line.startPrice - (c - line.startColumn) * line.boxSize

\* C14: HasBullishBias() holds exactly when the current line of the manager
\* is an active Bullish-Support line and HasBearishBias() exactly when it is
\* an active Bearish-Resistance line, so never both; at a column c at or
\* after the start of the line IsAboveBullishSupport(c, p) holds exactly
\* when HasBullishBias() and p > projection(c), and
\* IsBelowBearishResistance(c, p) exactly when HasBearishBias() and
\* p < projection(c).
C14_BiasQueries ==
    LET m == Manager(trendLines, activeTrendLine)
        line == trendLines[activeTrendLine]
    IN /\ HasBullishBias(m) <=> CurrentLineIs("BULLISH_SUPPORT")
       /\ HasBearishBias(m) <=> CurrentLineIs("BEARISH_RESISTANCE")
       /\ ~(HasBullishBias(m) /\ HasBearishBias(m))
       /\ \A c \in 0 .. MaxColumns, p \in Prices :
             (activeTrendLine = 0 \/ c >= line.startColumn)
             => /\ IsAboveBullishSupport(m, c, p)
                   <=> (HasBullishBias(m) /\ p > Projection(line, c))
                /\ IsBelowBearishResistance(m, c, p)
                   <=> (HasBearishBias(m) /\ p < Projection(line, c))

\* C14 witness: the current line is an active Bearish-Resistance line and
\* some price of the chart lies below its projection at the last column.
C14_Witness ==
    /\ lastCall.op = "AddData"
    /\ CurrentLineIs("BEARISH_RESISTANCE")
    /\ GetLowestPrice(columns[Len(columns)])
           < Projection(trendLines[activeTrendLine], Len(columns) - 1)

\* C15: GetActiveTrendLine() returns null or a line of the history that is
\* active; a line that has been broken is no longer returned.
C15_ActiveLineIsActive ==
    LET m == Manager(trendLines, activeTrendLine)
    IN GetActiveTrendLine(m) = 0
       \/ (/\ GetActiveTrendLine(m) \in 1 .. Len(trendLines)
           /\ trendLines[GetActiveTrendLine(m)].isActive)

\* The part of C15 that holds: what GetActiveTrendLine() returns is null or
\* a line of the history.
C15_ActiveLineInHistory ==
    LET m == Manager(trendLines, activeTrendLine)
    IN GetActiveTrendLine(m) \in 0 .. Len(trendLines)

\* C16: GetAllPrices() is strictly descending and its values are exactly the
\* box prices of the columns of the chart, each once.
C16_AllPrices ==
    LET prices == GetAllPrices(columns)
    IN /\ \A i \in 1 .. Len(prices) - 1 : prices[i] > prices[i + 1]
       /\ {prices[i] : i \in 1 .. Len(prices)}
              = UNION {BoxPrices(columns[c]) : c \in 1 .. Len(columns)}

\* C16 witness: a chart of three columns that share a price, which the
\* result holds once.
C16_Witness ==
    /\ lastCall.op = "AddData"
    /\ Len(columns) = 3
    /\ BoxPrices(columns[1]) \cap BoxPrices(columns[2]) \cap BoxPrices(columns[3]) # {}
    /\ Len(GetAllPrices(columns)) = 4

\* C17: Clear() resets the chart to its initial empty state and keeps the
\* configuration: no column, the construction type, box-size type, box size
\* and reversal count as before, no trend line, no current line and no
\* bias, so that the chart continues like a newly constructed one.
C17_ClearResets ==
    [][lastCall'.op = "Clear"
       => /\ Len(columns') = 0
          /\ UNCHANGED <<constructionType, boxSizeType, boxSize, reversalCount>>
          /\ trendLines' = <<>>
          /\ activeTrendLine' = 0
          /\ ~HasBullishBias(Manager(trendLines', activeTrendLine'))
          /\ ~HasBearishBias(Manager(trendLines', activeTrendLine'))]_vars

\* The part of C17 that holds: Clear() empties the columns and keeps the
\* configuration.
C17_ClearKeepsConfiguration ==
    [][lastCall'.op = "Clear"
       => /\ Len(columns') = 0
          /\ UNCHANGED <<constructionType, boxSizeType, boxSize, reversalCount>>]_vars

-----------------------------------------------------------------------------
(* SpecQuery: a small chart fed observations of two months and asked for   *)
(* its columns through GetColumn.                                          *)

QueryPrices == 0 .. MaxQueryPrice
QueryTimes == {24290, 24291}
QueryIndices == -1 .. MaxQueryColumns

\* What GetColumn(columnIndex) does: columns[columnIndex].get().  Inside the
\* vector that is the column.  Outside it operator[] reads past the
\* elements, which is undefined: the caller gets a null pointer, a wild
\* pointer or a fault.
GetColumn(cols, columnIndex) ==
    IF columnIndex \in 0 .. Len(cols) - 1
    THEN {[kind |-> "column", column |-> ColumnAt(cols, columnIndex)]}
    ELSE {[kind |-> "null"], [kind |-> "wild"], [kind |-> "fault"]}

\* the process has not been ended by a fault
Running == ~(lastCall.op = "GetColumn" /\ lastCall.ret.kind = "fault")

QueryAddPrice ==
    /\ Running
    /\ \E price \in QueryPrices, time \in QueryTimes :
          /\ AddDataPrice(price, time)
          /\ Len(columns') <= MaxQueryColumns

QueryAddBar ==
    /\ Running
    /\ \E bar \in BarsOf(QueryPrices), time \in QueryTimes :
          /\ AddData(bar.high, bar.low, bar.close, time)
          /\ Len(columns') <= MaxQueryColumns

QueryGetColumn ==
    /\ Running
    /\ \E columnIndex \in QueryIndices :
          \E result \in GetColumn(columns, columnIndex) :
              lastCall' = Call("GetColumn", <<columnIndex>>, result)
    /\ UNCHANGED <<chartVars, column, trendline>>

NextQuery == QueryAddPrice \/ QueryAddBar \/ QueryGetColumn

SpecQuery == Init /\ [][NextQuery]_vars

\* C18: AddData returns true when the observation added a box or a column
\* and false when it was absorbed without a change of the boxes.
C18_ReturnTellsUpdate ==
    [][lastCall'.op = "AddData" => (lastCall'.ret <=> columns' # columns)]_vars

\* The part of C18 that holds: AddData returns true when the observation
\* changed the boxes.
C18_TrueWhenUpdated ==
    [][(lastCall'.op = "AddData" /\ columns' # columns) => lastCall'.ret]_vars

\* C19: GetColumn(i) returns column i for an index i in
\* 0 .. GetColumnCount() - 1 and returns null, without a fault, for every
\* other index, on an empty chart for every index.
C19_GetColumnChecksIndex ==
    lastCall.op = "GetColumn"
    => LET i == lastCall.args[1]
       IN IF i \in 0 .. GetColumnCount - 1
          THEN lastCall.ret = [kind |-> "column", column |-> columns[i + 1]]
          ELSE lastCall.ret = [kind |-> "null"]

\* The part of C19 that holds: an index inside the chart gets its column.
C19_GetColumnInRange ==
    (lastCall.op = "GetColumn" /\ lastCall.args[1] \in 0 .. GetColumnCount - 1)
    => lastCall.ret = [kind |-> "column", column |-> columns[lastCall.args[1] + 1]]

-----------------------------------------------------------------------------
(* SpecConfig: charts constructed with a positive or a negative box size.  *)
(* The constructor stores whatever box size it is given.  With a negative  *)
(* size only the first observation is followed: from the second on, the    *)
(* fill loops step away from their limit and do not end.                   *)

ConfigBoxSizes == {-1, 1}
ConfigBoxSizeTypes == {"FIXED", "POINTS"}

InitConfig ==
    /\ \E ct \in {"CLOSING_PRICE", "HIGH_LOW"}, bst \in ConfigBoxSizeTypes,
          bs \in ConfigBoxSizes, reversal \in ReversalCounts, now \in ClockTimes :
            Construct(ct, bst, bs, reversal, now)
    /\ column = NoColumn
    /\ trendline = NoLine
    /\ lastCall = Call("new", <<>>, TRUE)

ConfigAddPrice ==
    /\ boxSize > 0 \/ Len(columns) = 0
    /\ AddPriceFrom(ClearPrices, MaxClearColumns)

ConfigAddBar ==
    /\ boxSize > 0 \/ Len(columns) = 0
    /\ AddBarFrom(ClearPrices, MaxClearColumns)

NextConfig == ConfigAddPrice \/ ConfigAddBar

SpecConfig == InitConfig /\ [][NextConfig]_vars

\* C20: a box size <= 0 is rejected when the chart is configured: no chart
\* of Fixed, Points or Percentage mode with a box size <= 0 is constructed
\* and then accepts AddData.
C20_BoxSizePositive ==
    (lastCall.op = "AddData" /\ boxSizeType \in {"FIXED", "POINTS", "PERCENTAGE"})
    => boxSize > 0

-----------------------------------------------------------------------------
(* The chart as a value.  Chart is the record of the chart's fields and    *)
(* the ...On operators are ProcessClosingPriceData, ProcessHighLowData and *)
(* AddData as functions from a chart and an observation to the chart the   *)
(* call leaves behind, so that an action can record the observation with   *)
(* the call and the same observation can be applied to another chart.      *)

Chart ==
    [columns |-> columns,
     constructionType |-> constructionType,
     boxSizeType |-> boxSizeType,
     boxSize |-> boxSize,
     reversalCount |-> reversalCount,
     lastProcessedTime |-> lastProcessedTime,
     trendLines |-> trendLines,
     activeTrendLine |-> activeTrendLine,
     managerBoxSize |-> managerBoxSize]

\* the chart ch with the state the manager m holds
WithManager(ch, m) ==
    [ch EXCEPT !.trendLines = m.trendLines, !.activeTrendLine = m.activeTrendLine]

ProcessClosingPriceDataOn(ch, close, time) ==
    LET marker == GetMonthMarkerForCurrentData(time, ch.lastProcessedTime)
        size == CalculateBoxSize(close, ch.boxSizeType, ch.boxSize)
        m == Manager(ch.trendLines, ch.activeTrendLine)
        lastColumn == GetLastColumn(ch.columns)
        rev == IsReversal(close, lastColumn, "unset",
                          ch.boxSizeType, ch.boxSize, ch.reversalCount)
        newColumns == PushColumn(ch.columns,
                                 ReversalColumn(lastColumn, rev.newBoxType, close,
                                                size, marker, ch.boxSizeType, ch.boxSize,
                                                ch.reversalCount))
        built ==
            IF Len(ch.columns) = 0
            THEN [ch EXCEPT !.columns = PushColumn(@, FirstColumn(close, marker,
                                                                  ch.boxSizeType, ch.boxSize))]
            ELSE IF rev.result
            THEN WithManager([ch EXCEPT !.columns = newColumns],
                             UpdateTrendLines(m, newColumns, Len(newColumns) - 1,
                                              ch.managerBoxSize))
            ELSE [ch EXCEPT !.columns[Len(ch.columns)] =
                                ClosingContinuation(lastColumn, close, size, marker,
                                                    ch.boxSizeType, ch.boxSize)]
    IN [built EXCEPT !.boxSize = StoredBoxSize(close, ch.boxSizeType, ch.boxSize),
                     !.lastProcessedTime = time]

ProcessHighLowDataOn(ch, high, low, time) ==
    LET marker == GetMonthMarkerForCurrentData(time, ch.lastProcessedTime)
        size == CalculateBoxSize(high, ch.boxSizeType, ch.boxSize)
        m == Manager(ch.trendLines, ch.activeTrendLine)
        lastColumn == GetLastColumn(ch.columns)
        revHigh == IsReversal(high, lastColumn, "unset",
                              ch.boxSizeType, ch.boxSize, ch.reversalCount)
        revLow == IsReversal(low, lastColumn, revHigh.newBoxType,
                             ch.boxSizeType, ch.boxSize, ch.reversalCount)
        reversed == Len(ch.columns) > 0 /\ (revHigh.result \/ revLow.result)
        reversalPrice == IF revHigh.result THEN high ELSE low
        newColumns == PushColumn(ch.columns,
                                 ReversalColumn(lastColumn, revLow.newBoxType, reversalPrice,
                                                size, marker, ch.boxSizeType, ch.boxSize,
                                                ch.reversalCount))
        built ==
            IF Len(ch.columns) = 0
            THEN [ch EXCEPT !.columns = PushColumn(@, FirstColumn(high, marker,
                                                                  ch.boxSizeType, ch.boxSize))]
            ELSE IF reversed
            THEN WithManager([ch EXCEPT !.columns = newColumns],
                             UpdateTrendLines(m, newColumns, Len(newColumns) - 1,
                                              ch.managerBoxSize))
            ELSE [ch EXCEPT !.columns[Len(ch.columns)] =
                                HighLowContinuation(lastColumn, high, low, size, marker,
                                                    ch.boxSizeType, ch.boxSize)]
    IN [built EXCEPT !.boxSize = StoredBoxSize(HighLowLastSizedPrice(ch.columns, high, low,
                                                                    reversed, reversalPrice),
                                               ch.boxSizeType, ch.boxSize),
                     !.lastProcessedTime = time]

\* AddData(high, low, close, time) on the chart ch
AddDataOn(ch, high, low, close, time) ==
    IF ch.constructionType = "HIGH_LOW"
    THEN ProcessHighLowDataOn(ch, high, low, time)
    ELSE ProcessClosingPriceDataOn(ch, close, time)

\* The call chart.AddData(high, low, close, time), recorded with its arguments.
AddDataCall(high, low, close, time) ==
    LET ch == AddDataOn(Chart, high, low, close, time)
    IN /\ columns' = ch.columns
       /\ boxSize' = ch.boxSize
       /\ lastProcessedTime' = ch.lastProcessedTime
       /\ trendLines' = ch.trendLines
       /\ activeTrendLine' = ch.activeTrendLine
       /\ lastCall' = Call("AddData", <<high, low, close, time>>, TRUE)
       /\ UNCHANGED <<constructionType, boxSizeType, reversalCount, managerBoxSize,
                      column, trendline>>

-----------------------------------------------------------------------------
(* SpecMonth: a chart whose observations are dated in different months.    *)
(* 24291 is the month that follows the later of the ClockTimes, 24302 is   *)
(* that clock time's month one year later.                                 *)

MonthPrices == 0 .. MaxMonthPrice
MonthTimes == {24291, 24302}

InitMonth ==
    /\ \E ct \in {"CLOSING_PRICE", "HIGH_LOW"}, reversal \in {1, 2}, now \in ClockTimes :
            Construct(ct, "FIXED", 1, reversal, now)
    /\ column = NoColumn
    /\ trendline = NoLine
    /\ lastCall = Call("new", <<>>, TRUE)

\* AddData(price, time) on a closing-price chart
MonthAddPrice ==
    /\ constructionType = "CLOSING_PRICE"
    /\ \E price \in MonthPrices, time \in MonthTimes :
           /\ AddDataCall(price, price, price, time)
           /\ Len(columns') <= MaxMonthColumns

\* AddData(high, low, close, time) on a high/low chart, which does not look
\* at the close
MonthAddBar ==
    /\ constructionType = "HIGH_LOW"
    /\ \E bar \in BarsOf(MonthPrices), time \in MonthTimes :
           /\ bar.close = bar.low
           /\ AddDataCall(bar.high, bar.low, bar.close, time)
           /\ Len(columns') <= MaxMonthColumns

NextMonth == MonthAddPrice \/ MonthAddBar

SpecMonth == InitMonth /\ [][NextMonth]_vars

\* the column without its markers
Unmarked(col) ==
    [col EXCEPT !.boxes = [i \in 1 .. Len(col.boxes) |-> [col.boxes[i] EXCEPT !.marker = ""]]]

\* the chart ch without its markers, last fed at time last
Erased(ch, last) ==
    [ch EXCEPT !.columns = [i \in 1 .. Len(ch.columns) |-> Unmarked(ch.columns[i])],
               !.lastProcessedTime = last]

\* two charts that differ in nothing but markers and the time of their last
\* observation
SameConstruction(a, b) == Erased(a, Epoch) = Erased(b, Epoch)

\* C21: month markers do not influence construction.  The chart an AddData
\* call leaves behind differs only in markers (and in the remembered time)
\* from the chart left behind when the same prices are fed, at any other
\* time, to a chart that differs from this one only in markers and in the
\* time of its last observation; so two charts of one configuration fed the
\* same prices at different times agree, observation after observation, in
\* column types, box prices, box types and trend-line state.
C21_MarkersDoNotInfluence ==
    [][lastCall'.op = "AddData" =>
          \A last \in MonthTimes \cup ClockTimes, time \in MonthTimes :
              SameConstruction(AddDataOn(Erased(Chart, last), lastCall'.args[1],
                                         lastCall'.args[2], lastCall'.args[3], time),
                               Chart')]_vars

\* C21 witness: a chart with a trend line whose last observation put a
\* marker on a box of the third column, and with a column that carries no
\* marker at all.
C21_Witness ==
    /\ Len(columns) = 3
    /\ Len(trendLines) = 1
    /\ \E i \in 1 .. Len(columns[3].boxes) : columns[3].boxes[i].marker # ""
    /\ \E c \in 1 .. 2 : \A i \in 1 .. Len(columns[c].boxes) : columns[c].boxes[i].marker = ""

\* the boxes a call adds to the chart: those of the column it appends or
\* those it appends to the last column
AddedBoxes(before, after) ==
    IF Len(after) > Len(before) THEN after[Len(after)].boxes
    ELSE IF Len(after) = 0 THEN <<>>
    ELSE SubSeq(after[Len(after)].boxes, Len(before[Len(before)].boxes) + 1,
                Len(after[Len(after)].boxes))

\* the boxes that were in the chart before the call are still what they were
OldBoxesKept(before, after) ==
    /\ Len(after) >= Len(before)
    /\ \A c \in 1 .. Len(before) :
          /\ Len(after[c].boxes) >= Len(before[c].boxes)
          /\ SubSeq(after[c].boxes, 1, Len(before[c].boxes)) = before[c].boxes

\* C22: an AddData call puts a month marker on at most one box, the first box
\* it fills, and, when an observation was processed before, only when the
\* month or year of the new observation differs from that of the previous
\* one; every other box it adds has an empty marker and the boxes already in
\* the chart keep theirs.
C22_OneMarkerPerCall ==
    [][lastCall'.op = "AddData" =>
          LET added == AddedBoxes(columns, columns')
          IN /\ OldBoxesKept(columns, columns')
             /\ \A i \in 2 .. Len(added) : added[i].marker = ""
             /\ (Len(added) >= 1 /\ added[1].marker # "" /\ Len(columns) > 0)
                    => lastCall'.args[4] # lastProcessedTime]_vars

\* C22 witness: an observation of a new month has reversed the chart into a
\* column of two boxes, of which the first carries the marker and the second
\* does not.
C22_Witness ==
    /\ lastCall.op = "AddData"
    /\ Len(columns) >= 2
    /\ Len(columns[Len(columns)].boxes) = 2
    /\ columns[Len(columns)].boxes[1].marker # ""
    /\ columns[Len(columns)].boxes[2].marker = ""

\* the label of the calendar month of time t
MonthLabel(t) ==
    <<"1", "2", "3", "4", "5", "6", "7", "8", "9", "A", "B", "C">>[(t % 12) + 1]

\* C23: the first observation fed to a chart (after construction or after
\* Clear()) makes a first column of one box that carries the label of the
\* observation's month.
C23_FirstObservationMarked ==
    [][(lastCall'.op = "AddData" /\ Len(columns) = 0) =>
          /\ Len(columns') = 1
          /\ Len(columns'[1].boxes) = 1
          /\ columns'[1].boxes[1].marker = MonthLabel(lastProcessedTime')]_vars

-----------------------------------------------------------------------------
(* SpecSet: the chart of SpecClear with SetBoxSizeType in place of         *)
(* Clear().  A box size of zero makes RoundToBoxSize divide by zero, so    *)
(* no observation is fed while the box size is zero.                       *)

BoxSizeTypes == {"FIXED", "DEFAULT", "POINTS", "PERCENTAGE"}

\* the value of an enumerator of enum BoxSizeType
BoxSizeTypeValue(t) ==
    CASE t = "FIXED" -> 0
      [] t = "DEFAULT" -> 1
      [] t = "POINTS" -> 2
      [] t = "PERCENTAGE" -> 3

\* SetBoxSizeType(boxSizeType): the assignment converts the enumerator to a
\* double, which is 16 sixteenths for each unit
SetBoxSizeType(t) ==
    /\ boxSize' = 16 * BoxSizeTypeValue(t)
    /\ lastCall' = Call("SetBoxSizeType", <<t>>, TRUE)
    /\ UNCHANGED <<columns, constructionType, boxSizeType, reversalCount,
                   lastProcessedTime, trendLines, activeTrendLine, managerBoxSize,
                   column, trendline>>

SetAddPrice ==
    /\ boxSize > 0
    /\ AddPriceFrom(ClearPrices, MaxClearColumns)

SetAddBar ==
    /\ boxSize > 0
    /\ AddBarFrom(ClearPrices, MaxClearColumns)

SetType == \E t \in BoxSizeTypes : SetBoxSizeType(t)

NextSet == SetAddPrice \/ SetAddBar \/ SetType

SpecSet == Init /\ [][NextSet]_vars

\* C24: SetBoxSizeType(t) makes t the box-size type of the chart and leaves
\* the box size, the construction type, the reversal count and the columns
\* as they were.
C24_SetBoxSizeType ==
    [][lastCall'.op = "SetBoxSizeType" =>
          /\ boxSizeType' = lastCall'.args[1]
          /\ boxSize' = boxSize
          /\ constructionType' = constructionType
          /\ reversalCount' = reversalCount
          /\ columns' = columns]_vars

-----------------------------------------------------------------------------
(* SpecBar: a chart of box size 1 fed observations that are recorded with  *)
(* the call.                                                               *)

BarPrices == 0 .. MaxBarPrice

InitBar ==
    /\ \E ct \in {"CLOSING_PRICE", "HIGH_LOW"}, reversal \in {1, 2}, now \in ClockTimes :
            Construct(ct, "FIXED", 1, reversal, now)
    /\ column = NoColumn
    /\ trendline = NoLine
    /\ lastCall = Call("new", <<>>, TRUE)

\* AddData(price, time) on a closing-price chart
BarAddPrice ==
    /\ constructionType = "CLOSING_PRICE"
    /\ \E price \in BarPrices, time \in DataTimes :
           /\ AddDataCall(price, price, price, time)
           /\ Len(columns') <= MaxBarColumns

\* AddData(high, low, close, time) on a high/low chart, which does not look
\* at the close
BarAddBar ==
    /\ constructionType = "HIGH_LOW"
    /\ \E bar \in BarsOf(BarPrices), time \in DataTimes :
           /\ bar.close = bar.low
           /\ AddDataCall(bar.high, bar.low, bar.close, time)
           /\ Len(columns') <= MaxBarColumns

NextBar == BarAddPrice \/ BarAddBar

SpecBar == InitBar /\ [][NextBar]_vars

\* the reversal threshold of a column, as the rules of the chart state it
Fires(col, price, reversal, size) ==
    CASE col.columnType = "COLUMN_X" -> price <= GetHighestPrice(col) - reversal * size
      [] col.columnType = "COLUMN_O" -> price >= GetLowestPrice(col) + reversal * size
      [] OTHER -> \/ price > GetHighestPrice(col) + size
                  \/ price < GetLowestPrice(col) - size

\* the call appends one column and leaves the others as they were
AppendsOneColumn(before, after) ==
    /\ Len(after) = Len(before) + 1
    /\ SubSeq(after, 1, Len(before)) = before

\* C25: high/low construction tests reversal first.  A bar whose high is a
\* new high of an Up last column and whose low is at or below the reversal
\* threshold appends a column and leaves the Up column as it was; and the
\* last column is extended only by a bar of which neither the high nor the
\* low fires a reversal.
C25_ReversalFirst ==
    [][(lastCall'.op = "AddData" /\ constructionType = "HIGH_LOW" /\ Len(columns) > 0) =>
          LET high == lastCall'.args[1]
              low == lastCall'.args[2]
              last == GetLastColumn(columns)
          IN /\ (/\ last.columnType = "COLUMN_X"
                 /\ high > GetHighestPrice(last)
                 /\ low <= GetHighestPrice(last) - reversalCount * boxSize)
                    => AppendsOneColumn(columns, columns')
             /\ (Len(columns') = Len(columns) /\ columns' # columns)
                    => /\ ~Fires(last, high, reversalCount, boxSize)
                       /\ ~Fires(last, low, reversalCount, boxSize)]_vars

\* C25 witness: the last call was a bar with a high above the Up column
\* before the last one and a low at or below its reversal threshold.
C25_Witness ==
    /\ lastCall.op = "AddData"
    /\ constructionType = "HIGH_LOW"
    /\ Len(columns) >= 2
    /\ columns[Len(columns) - 1].columnType = "COLUMN_X"
    /\ lastCall.args[1] > GetHighestPrice(columns[Len(columns) - 1])
    /\ lastCall.args[2] <= GetHighestPrice(columns[Len(columns) - 1]) - reversalCount * boxSize
    /\ GetBoxCount(columns[Len(columns)]) > 0

\* the prices from, from - size, ... down to limit, in this order
RECURSIVE PricesDown(_, _, _)
PricesDown(from, limit, size) ==
    IF from < limit THEN <<>> ELSE <<from>> \o PricesDown(from - size, limit, size)

\* the prices from, from + size, ... up to limit, in this order
RECURSIVE PricesUp(_, _, _)
PricesUp(from, limit, size) ==
    IF from > limit THEN <<>> ELSE <<from>> \o PricesUp(from + size, limit, size)

\* the prices of the boxes of a column, in the order of the boxes
PriceList(col) == [i \in 1 .. Len(col.boxes) |-> col.boxes[i].price]

\* C26: in high/low construction the low drives the reversal out of an Up
\* column and the high the reversal out of a Down column.  A bar that
\* reverses an Up column with highest price H makes a column filled from
\* H - B down to floor(low / B) * B, and a bar that reverses a Down column
\* with lowest price L makes a column filled from L + B up to
\* ceil(high / B) * B.
C26_ReversalFillHighLow ==
    [][(/\ lastCall'.op = "AddData"
        /\ constructionType = "HIGH_LOW"
        /\ Len(columns) > 0
        /\ Len(columns') = Len(columns) + 1) =>
          LET high == lastCall'.args[1]
              low == lastCall'.args[2]
              last == GetLastColumn(columns)
              new == GetLastColumn(columns')
          IN /\ last.columnType = "COLUMN_X" =>
                    PriceList(new) = PricesDown(GetHighestPrice(last) - boxSize,
                                                (low \div boxSize) * boxSize, boxSize)
             /\ last.columnType = "COLUMN_O" =>
                    PriceList(new) = PricesUp(GetLowestPrice(last) + boxSize,
                                              (-((-high) \div boxSize)) * boxSize, boxSize)]_vars

\* C27: Mixed columns are extended by continuation in both construction
\* types.  With reversalCount 1, a Mixed last column and an observation that
\* fires no reversal, a high (the close, in closing-price construction)
\* above the column's highest price fills the column upward to the rounded
\* high, and otherwise a low below its lowest price fills it downward to the
\* rounded low.
C27_MixedContinuation ==
    [][(/\ lastCall'.op = "AddData"
        /\ reversalCount = 1
        /\ Len(columns) > 0
        /\ GetLastColumn(columns).columnType = "COLUMN_MIXED") =>
          LET high == IF constructionType = "HIGH_LOW" THEN lastCall'.args[1]
                      ELSE lastCall'.args[3]
              low == IF constructionType = "HIGH_LOW" THEN lastCall'.args[2]
                     ELSE lastCall'.args[3]
              last == GetLastColumn(columns)
              highest == GetHighestPrice(last)
              lowest == GetLowestPrice(last)
          IN (~Fires(last, high, reversalCount, boxSize)
                  /\ ~Fires(last, low, reversalCount, boxSize)) =>
                /\ Len(columns') = Len(columns)
                /\ high > highest =>
                      BoxPrices(GetLastColumn(columns')) =
                          BoxPrices(last) \cup
                          {p \in highest + 1 .. (-((-high) \div boxSize)) * boxSize :
                              (p - highest) % boxSize = 0}
                /\ (~(high > highest) /\ low < lowest) =>
                      BoxPrices(GetLastColumn(columns')) =
                          BoxPrices(last) \cup
                          {p \in (low \div boxSize) * boxSize .. lowest - 1 :
                              (lowest - p) % boxSize = 0}]_vars

-----------------------------------------------------------------------------
(* SpecSearch: the significance search of the trend-line manager on a      *)
(* vector of columns of any types, built column after column.              *)

SearchPrices == 0 .. MaxSearchPrice

\* a column of one box, or of the boxes at the lowest and the highest price
SearchColumns ==
    {AddBox(PnFColumn(columnType), price, "X", "") :
        columnType \in {"COLUMN_X", "COLUMN_O"}, price \in SearchPrices}
    \cup {AddBox(AddBox(PnFColumn(columnType), 0, "X", ""), MaxSearchPrice, "X", "") :
             columnType \in {"COLUMN_X", "COLUMN_O"}}

InitSearch ==
    /\ Construct("CLOSING_PRICE", "FIXED", 1, 3, 24290)
    /\ column = NoColumn
    /\ trendline = NoLine
    /\ lastCall = Call("new", <<>>, TRUE)

\* columns.push_back of a column built elsewhere
SearchPush ==
    /\ Len(columns) < MaxSearchColumns
    /\ \E col \in SearchColumns : columns' = PushColumn(columns, col)
    /\ lastCall' = Call("push_back", <<>>, TRUE)
    /\ UNCHANGED <<constructionType, boxSizeType, boxSize, reversalCount,
                   lastProcessedTime, trendLines, activeTrendLine, managerBoxSize,
                   column, trendline>>

SearchLow ==
    \E fromColumn \in -1 .. Len(columns) - 1 :
        /\ lastCall' = Call("FindSignificantLow", <<fromColumn>>,
                            FindSignificantLow(columns, fromColumn))
        /\ UNCHANGED <<chartVars, column, trendline>>

SearchHigh ==
    \E fromColumn \in -1 .. Len(columns) - 1 :
        /\ lastCall' = Call("FindSignificantHigh", <<fromColumn>>,
                            FindSignificantHigh(columns, fromColumn))
        /\ UNCHANGED <<chartVars, column, trendline>>

NextSearch == SearchPush \/ SearchLow \/ SearchHigh

SpecSearch == InitSearch /\ [][NextSearch]_vars

\* the significance of column i as the rules of the manager state it
SignificantLow(cols, i) ==
    /\ i >= 1
    /\ ColumnAt(cols, i).columnType = "COLUMN_O"
    /\ ColumnAt(cols, i - 1).columnType = "COLUMN_X"
    /\ GetLowestPrice(ColumnAt(cols, i)) < GetHighestPrice(ColumnAt(cols, i - 1))
    /\ \A j \in i - Min(3, i) .. i - 1 :
          ~(GetLowestPrice(ColumnAt(cols, j)) < GetLowestPrice(ColumnAt(cols, i)))

SignificantHigh(cols, i) ==
    /\ i >= 1
    /\ ColumnAt(cols, i).columnType = "COLUMN_X"
    /\ ColumnAt(cols, i - 1).columnType = "COLUMN_O"
    /\ GetHighestPrice(ColumnAt(cols, i)) > GetLowestPrice(ColumnAt(cols, i - 1))
    /\ \A j \in i - Min(3, i) .. i - 1 :
          ~(GetHighestPrice(ColumnAt(cols, j)) > GetHighestPrice(ColumnAt(cols, i)))

\* the greatest member of S that is at most fromColumn, -1 when there is none
GreatestUpTo(S, fromColumn) ==
    IF \E i \in S : i <= fromColumn
    THEN SetMax({i \in S : i <= fromColumn})
    ELSE -1

\* C28: column i is a significant low iff it is a Down column, i >= 1, column
\* i - 1 is an Up column, its lowest price is below the highest price of
\* column i - 1 and none of the min(3, i) columns before it has a lower low;
\* FindSignificantLow(columns, from) is the greatest such index at most from,
\* or -1.  Significant highs and FindSignificantHigh are the mirror image.
C28_SignificanceSearch ==
    LET indices == 0 .. Len(columns) - 1
        lows == {i \in indices : SignificantLow(columns, i)}
        highs == {i \in indices : SignificantHigh(columns, i)}
    IN /\ \A i \in indices : IsSignificantLow(columns, i) <=> i \in lows
       /\ \A i \in indices : IsSignificantHigh(columns, i) <=> i \in highs
       /\ \A fromColumn \in -1 .. Len(columns) - 1 :
             /\ FindSignificantLow(columns, fromColumn) = GreatestUpTo(lows, fromColumn)
             /\ FindSignificantHigh(columns, fromColumn) = GreatestUpTo(highs, fromColumn)
       /\ lastCall.op = "FindSignificantLow"
             => lastCall.ret = GreatestUpTo(lows, lastCall.args[1])
       /\ lastCall.op = "FindSignificantHigh"
             => lastCall.ret = GreatestUpTo(highs, lastCall.args[1])

\* C28 witness: a search from column 4 that passes over that column, a Down
\* column below the high of the Up column before it, because one of the
\* three columns before has a lower low, and finds a significant low further
\* back.
C28_Witness ==
    /\ lastCall.op = "FindSignificantLow"
    /\ Len(columns) = 5
    /\ lastCall.args[1] = 4
    /\ lastCall.ret \in 1 .. 3
    /\ columns[5].columnType = "COLUMN_O"
    /\ columns[4].columnType = "COLUMN_X"
    /\ GetLowestPrice(columns[5]) < GetHighestPrice(columns[4])

-----------------------------------------------------------------------------
(* SpecMode: charts of the box-sizing modes FIXED, POINTS and DEFAULT.  A  *)
(* DEFAULT chart is constructed with the default box size argument 0.0.    *)

ModeConfigurations ==
    {<<"FIXED", 1>>, <<"FIXED", 2>>, <<"POINTS", 1>>, <<"POINTS", 2>>, <<"DEFAULT", 0>>}

InitMode ==
    /\ \E ct \in {"CLOSING_PRICE", "HIGH_LOW"}, mode \in ModeConfigurations,
          reversal \in {2, 3}, now \in ClockTimes :
            Construct(ct, mode[1], mode[2], reversal, now)
    /\ column = NoColumn
    /\ trendline = NoLine
    /\ lastCall = Call("new", <<>>, TRUE)

ModeAddPrice == AddPriceFrom(Prices, MaxClearColumns)

ModeAddBar == AddBarFrom(Prices, MaxClearColumns)

NextMode == ModeAddPrice \/ ModeAddBar

SpecMode == InitMode /\ [][NextMode]_vars

\* C29: every trend line of a chart has the box size the chart builds its
\* columns with, and that box size is strictly positive.
C29_LineBoxSize ==
    lastCall.op = "AddData" =>
        \A i \in 1 .. Len(trendLines) :
            /\ trendLines[i].boxSize = boxSize
            /\ trendLines[i].boxSize > 0

\* C30: an active trend line is never more than one box behind the chart.
\* When AddData has returned and a Bullish-Support line is active, the last
\* column's lowest price is not more than one box below the line's
\* projection at the last column; with an active Bearish-Resistance line the
\* last column's highest price is not more than one box above it.
C30_ActiveLineNotCrossed ==
    (lastCall.op = "AddData" /\ Len(columns) > 0 /\ activeTrendLine # 0) =>
        LET line == trendLines[activeTrendLine]
            last == GetLastColumn(columns)
            projected == Projection(line, Len(columns) - 1)
        IN line.isActive =>
              IF line.trendLineType = "BULLISH_SUPPORT"
              THEN GetLowestPrice(last) >= projected - line.boxSize
              ELSE GetHighestPrice(last) <= projected + line.boxSize

-----------------------------------------------------------------------------
(* Order of the boxes of a column.                                          *)

\* the prices of a sequence of boxes rise strictly, or fall strictly
StrictlyRising(ps) == \A i \in 1 .. Len(ps) - 1 : ps[i] < ps[i + 1]

StrictlyFalling(ps) == \A i \in 1 .. Len(ps) - 1 : ps[i] > ps[i + 1]

\* C31: within every column, Mixed columns included, the boxes in insertion
\* order are strictly monotonic by price: all rising or all falling.
C31_BoxesMonotonic ==
    \A i \in 1 .. Len(columns) :
        \/ StrictlyRising(PriceList(columns[i]))
        \/ StrictlyFalling(PriceList(columns[i]))

-----------------------------------------------------------------------------
(* SpecTier: charts of every box-size mode fed with the prices on both     *)
(* sides of each threshold of the DEFAULT tier table (in sixteenths).  An  *)
(* observation is fed only when it lies within MaxTierFill boxes of the    *)
(* last column, and a bar only when its range is no more than MaxTierFill  *)
(* boxes, which keeps the columns short.  PERCENTAGE charts use 100        *)
(* percent, for which price * boxSize / 100 is the price itself.           *)

TierThresholds == {4, 16, 80, 320, 1600, 3200, 8000, 16000, 400000}

TierPrices == TierThresholds \cup {t - 1 : t \in TierThresholds}

TierConfigurations ==
    {<<"DEFAULT", 0>>, <<"FIXED", 16>>, <<"POINTS", 16>>, <<"PERCENTAGE", 100>>}

InitTier ==
    /\ \E ct \in {"CLOSING_PRICE", "HIGH_LOW"}, mode \in TierConfigurations,
          reversal \in {1, 2}, now \in ClockTimes :
            Construct(ct, mode[1], mode[2], reversal, now)
    /\ column = NoColumn
    /\ trendline = NoLine
    /\ lastCall = Call("new", <<>>, TRUE)

\* the price lies within MaxTierFill boxes of its size from the last column
NearLastColumn(price) ==
    IF Len(columns) = 0 THEN TRUE
    ELSE LET last == GetLastColumn(columns)
             size == CalculateBoxSize(price, boxSizeType, boxSize)
         IN /\ Abs(price - GetHighestPrice(last)) <= MaxTierFill * size
            /\ Abs(price - GetLowestPrice(last)) <= MaxTierFill * size

TierAddPrice ==
    \E price \in TierPrices, time \in DataTimes :
        /\ constructionType = "CLOSING_PRICE"
        /\ NearLastColumn(price)
        /\ AddDataCall(price, price, price, time)
        /\ Len(columns') <= MaxTierColumns

TierAddBar ==
    \E high \in TierPrices, low \in TierPrices, time \in DataTimes :
        /\ constructionType = "HIGH_LOW"
        /\ low <= high
        /\ high - low <= MaxTierFill * CalculateBoxSize(low, boxSizeType, boxSize)
        /\ NearLastColumn(high)
        /\ NearLastColumn(low)
        /\ AddDataCall(high, low, low, time)
        /\ Len(columns') <= MaxTierColumns

NextTier == TierAddPrice \/ TierAddBar

SpecTier == InitTier /\ [][NextTier]_vars

\* the tier table as the description of DEFAULT sizing gives it, in sixteenths
TierOf(p) ==
    CASE p < 4 -> 1
      [] p >= 4 /\ p < 16 -> 2
      [] p >= 16 /\ p < 80 -> 4
      [] p >= 80 /\ p < 320 -> 8
      [] p >= 320 /\ p < 1600 -> 16
      [] p >= 1600 /\ p < 3200 -> 32
      [] p >= 3200 /\ p < 8000 -> 64
      [] p >= 8000 /\ p < 16000 -> 80
      [] p >= 16000 /\ p < 400000 -> 800
      [] OTHER -> 8000

\* C32: in DEFAULT mode CalculateBoxSize(p) is the tier of p and stores it,
\* so after a closing-price AddData(p) the box size of the chart is the tier
\* of p; in FIXED, POINTS and PERCENTAGE mode AddData leaves the box size of
\* the chart as it was.
C32_DefaultTiers ==
    [][/\ \A p \in TierPrices :
            /\ CalculateBoxSize(p, "DEFAULT", boxSize) = TierOf(p)
            /\ StoredBoxSize(p, "DEFAULT", boxSize) = TierOf(p)
       /\ (boxSizeType = "DEFAULT" /\ constructionType = "CLOSING_PRICE")
            => boxSize' = TierOf(lastCall'.args[3])
       /\ boxSizeType # "DEFAULT" => boxSize' = boxSize]_vars

\* a DEFAULT closing-price chart whose first box was sized below the 1000
\* threshold and whose last observation, 1000, left the tier 50 behind
C32_Witness ==
    /\ boxSizeType = "DEFAULT"
    /\ constructionType = "CLOSING_PRICE"
    /\ Len(columns) >= 1
    /\ PriceList(columns[1])[1] = 15920
    /\ lastCall.args = <<16000, 16000, 16000, 24290>>
    /\ boxSize = 800

-----------------------------------------------------------------------------
(* Columns and their boxes after AddData.                                   *)

\* C33: after any sequence of AddData calls every column of the chart holds
\* at least one box, in both construction types and for every reversal count.
C33_NoEmptyColumn ==
    \A i \in 1 .. Len(columns) : GetBoxCount(columns[i]) >= 1

-----------------------------------------------------------------------------
(* Responsiveness: whether some observation still adds a box.               *)

\* the number of boxes of all the columns of a chart
RECURSIVE BoxTotal(_)
BoxTotal(cols) ==
    IF Len(cols) = 0 THEN 0
    ELSE GetBoxCount(cols[Len(cols)]) + BoxTotal(SubSeq(cols, 1, Len(cols) - 1))

\* Observations that reach past every threshold a chart of Spec can have:
\* its box prices lie in 0 .. MaxPrice, and a reversal or a continuation
\* needs at most MaxReversal boxes of at most 2 beyond them.
FarPrices == (0 - 2 * MaxReversal - 2) .. (MaxPrice + 2 * MaxReversal + 2)

\* some observation makes AddData add a box to the chart
Responsive ==
    \E high \in FarPrices, low \in FarPrices, time \in DataTimes :
        /\ low <= high
        /\ BoxTotal(AddDataOn(Chart, high, low, low, time).columns) > BoxTotal(columns)

\* C34: the chart never becomes permanently unresponsive: in every state of
\* a chart with a positive fixed box size and a reversal count of at least 1
\* there is an observation whose AddData adds at least one box.
C34_AlwaysResponsive == Responsive

-----------------------------------------------------------------------------
(* SpecLife: the chart of Spec with Clear(), long enough for a trend line   *)
(* to be created and broken, before or after the chart is cleared.         *)

LifeAddPrice == AddPriceFrom(Prices, MaxLifeColumns) /\ TouchesBounded(trendLines')

LifeAddBar == AddBarFrom(Prices, MaxLifeColumns) /\ TouchesBounded(trendLines')

LifeClear == \E now \in ClockTimes : Clear(now)

NextLife == LifeAddPrice \/ LifeAddBar \/ LifeClear

SpecLife == Init /\ [][NextLife]_vars

C36_OnlyLastColumnChanges ==
    [][/\ Len(columns') >= Len(columns)
       /\ Len(columns') <= Len(columns) + 1
       /\ \A i \in 1 .. Len(columns) - 1 : columns'[i] = columns[i]
       /\ Len(columns') > Len(columns) => SubSeq(columns', 1, Len(columns)) = columns]_vars

\* a chart of four columns with more than one box in each of the first three
C36_Witness ==
    /\ Len(columns) = 4
    /\ \A i \in 1 .. 3 : GetBoxCount(columns[i]) >= 2
    /\ lastCall.op = "AddData"

\* the column holds exactly the levels lowest, lowest + size, ..., highest
GapFreeRun(col, size) ==
    LET lowest == GetLowestPrice(col)
        highest == GetHighestPrice(col)
    IN /\ BoxPrices(col) = {lowest + k * size : k \in 0 .. (highest - lowest) \div size}
       /\ GetBoxCount(col) = (highest - lowest) \div size + 1

\* every box of an Up column is an X and every box of a Down column an O
BoxesFollowColumn(col) ==
    \A i \in 1 .. Len(col.boxes) :
        /\ col.columnType = "COLUMN_X" => col.boxes[i].boxType = "X"
        /\ col.columnType = "COLUMN_O" => col.boxes[i].boxType = "O"

\* C37: with a fixed box size B > 0 every box price is a multiple of B, the
\* boxes of each column are the levels from its lowest to its highest price
\* without a gap and without a repetition, and the boxes of Up and Down
\* columns have the type of their column.
C37_BoxGrid ==
    \A c \in 1 .. Len(columns) :
        /\ \A i \in 1 .. Len(columns[c].boxes) : columns[c].boxes[i].price % boxSize = 0
        /\ GapFreeRun(columns[c], boxSize)
        /\ BoxesFollowColumn(columns[c])

-----------------------------------------------------------------------------
(* Repeating an observation.                                                *)

\* C38: in closing-price construction with a fixed box size, AddData(p)
\* called twice in succession leaves after the second call the columns the
\* first call left, for every state of the chart and every price p, on or
\* off a box boundary.
C38_RepeatIsNoOp ==
    constructionType = "CLOSING_PRICE" =>
        \A p \in Prices, time \in DataTimes :
            LET once == AddDataOn(Chart, p, p, p, time)
                twice == AddDataOn(once, p, p, p, time)
            IN twice.columns = once.columns

-----------------------------------------------------------------------------
(* Trend lines and the columns of the chart.                                *)

\* C39: a chart with reversal count 1 never creates a trend line.  Every
\* column after the first is Mixed, so after any sequence of AddData calls
\* the history is empty, no line is active and neither bias is reported.
C39_NoLineWithReversalOne ==
    reversalCount = 1 =>
        /\ \A i \in 2 .. Len(columns) : columns[i].columnType = "COLUMN_MIXED"
        /\ trendLines = <<>>
        /\ activeTrendLine = 0
        /\ ~HasBullishBias(Manager(trendLines, activeTrendLine))
        /\ ~HasBearishBias(Manager(trendLines, activeTrendLine))

\* a chart with reversal count 1 whose second column fell by two boxes and
\* whose third column rose by two
C39_Witness ==
    /\ reversalCount = 1
    /\ Len(columns) >= 3
    /\ GetBoxCount(columns[2]) >= 2
    /\ columns[2].boxes[1].boxType = "O"
    /\ GetBoxCount(columns[3]) >= 2
    /\ columns[3].boxes[1].boxType = "X"

\* the line starts at a column below the last one, at the lowest price of a
\* Down column when it is a support line and at the highest price of an Up
\* column when it is a resistance line
Anchored(line, cols) ==
    /\ line.startColumn >= 0
    /\ line.startColumn < Len(cols) - 1
    /\ LET start == ColumnAt(cols, line.startColumn)
       IN IF line.trendLineType = "BULLISH_SUPPORT"
          THEN /\ start.columnType = "COLUMN_O"
               /\ line.startPrice = GetLowestPrice(start)
          ELSE /\ start.columnType = "COLUMN_X"
               /\ line.startPrice = GetHighestPrice(start)

\* C40: after any sequence of AddData calls every line of the history starts
\* at a valid column index strictly below the index of the column whose
\* formation created it; a Bullish-Support line starts at a Down column, at
\* that column's current lowest price, and a Bearish-Resistance line at an Up
\* column, at that column's current highest price.
C40_LinesAnchored ==
    \A i \in 1 .. Len(trendLines) : Anchored(trendLines[i], columns)

\* a support line that starts at a Down column of two boxes or more, in a
\* chart that has grown by two columns since the line was created
C40_Witness ==
    /\ Len(trendLines) = 1
    /\ trendLines[1].trendLineType = "BULLISH_SUPPORT"
    /\ Len(columns) >= trendLines[1].startColumn + 4
    /\ GetBoxCount(ColumnAt(columns, trendLines[1].startColumn)) >= 2

====
